---- MODULE Spec2Model ----
(***************************************************************************)
(* Banqi game server (socket.io).  One room, its shared game state, the    *)
(* global playerColors map and the handlers createGame, joinGame, move,    *)
(* reset and disconnect.                                                   *)
(***************************************************************************)
EXTENDS Integers, Sequences, FiniteSets, TLC

VARIABLES
    connected,      \* socket -> the connection is alive
    room,           \* socket -> the closure variable `room` (0: null, 1: the game code)
    members,        \* io.sockets.adapter.rooms.get(code): sockets joined to the room
    creator,        \* activeGames.get(code).creator (0: activeGames has no entry)
    created,        \* the game code has been generated
    hasGame,        \* banqiGames.has(code)
    gameState,      \* banqiGames.get(code)
    playerColors,   \* the global playerColors map (key 0: the key null)
    captured,       \* colour -> number of capturedPiece values reported for this board
    lastAccepted,   \* playerId of the last accepted 'move' broadcast of this game
    last,           \* the event handled last and the socket it came from
    out,            \* what the last handler emitted, in order
    fn,             \* the pure-function harness: arguments and result
    game,           \* an instance of the class Banqi
    clients         \* socket -> the state of its browser client (BanqiGame)

vars == <<connected, room, members, creator, created, hasGame, gameState,
          playerColors, captured, lastAccepted, last, out, fn, game, clients>>

----------------------------------------------------------------------------
\* Bounds of the model

\* Sockets that ever connect; socket ids are opaque, so the one that creates
\* the game is called 1.
Sockets == {1, 2, 3}
Creators == {1}

\* The sockets that send requests where each request's data is kept on record.
Players == {1, 2}

\* The move handler is not run once turnCount has reached this value.
MaxTurnCount == 5

\* Coordinates carried by 'move' requests: the first cells of row 0 and the
\* column just left of the grid.
ReqRows == 0 .. 0
ReqCols == -1 .. 2

----------------------------------------------------------------------------
\* JavaScript values

NoSocket == 0
NoRoom == 0
Code == 1

Colors == {"red", "black"}

\* null / undefined, an absent piece
NoPiece == [type |-> "none", color |-> "none", rank |-> 0, faceUp |-> FALSE]

Truthy(piece) == piece.type # "none"

----------------------------------------------------------------------------
\* generateBanqiBoard

ROWS == 4
COLS == 8

TypeOrder == <<"GENERAL", "ADVISOR", "ELEPHANT", "CHARIOT", "HORSE", "CANNON", "SOLDIER">>

pieceTypes ==
    [GENERAL  |-> [rank |-> 7, count |-> 1],
     ADVISOR  |-> [rank |-> 6, count |-> 2],
     ELEPHANT |-> [rank |-> 5, count |-> 2],
     CHARIOT  |-> [rank |-> 4, count |-> 2],
     HORSE    |-> [rank |-> 3, count |-> 2],
     CANNON   |-> [rank |-> 2, count |-> 2],
     SOLDIER  |-> [rank |-> 1, count |-> 5]]

\* the inner loop: count pushes of one type
RECURSIVE PushType(_, _, _)
PushType(type, color, n) ==
    IF n = 0 THEN <<>>
    ELSE <<[type |-> type, color |-> color, rank |-> pieceTypes[type].rank]>>
         \o PushType(type, color, n - 1)

\* the outer loop over the types, in key order
RECURSIVE PushColor(_, _)
PushColor(types, color) ==
    IF types = <<>> THEN <<>>
    ELSE PushType(Head(types), color, pieceTypes[Head(types)].count)
         \o PushColor(Tail(types), color)

UnshuffledPieces == PushColor(TypeOrder, "red") \o PushColor(TypeOrder, "black")

\* Swap that copies pieces[j] to pieces[i] and loses what was there
SwapOverwrite(pieces, i, j) == [pieces EXCEPT ![i + 1] = pieces[j + 1]]

\* [pieces[i], pieces[j]] = [pieces[j], pieces[i]], 0-based i and j
Swap(pieces, i, j) ==
    [pieces EXCEPT ![i + 1] = pieces[j + 1], ![j + 1] = pieces[i + 1]]

\* Fisher-Yates, i from pieces.length - 1 down to 1; draws[i] is the value of
\* Math.floor(Math.random() * (i + 1)) at step i
RECURSIVE FisherYates(_, _, _)
FisherYates(pieces, draws, i) ==
    IF i <= 0 THEN pieces
    ELSE FisherYates(Swap(pieces, i, draws[i]), draws, i - 1)

\* Cells of the board storage: the 4 x 8 grid, and for each row array the
\* property -1 that a write to board[r][-1] creates.
OffCol == -1
GridCells == (0 .. ROWS - 1) \X (0 .. COLS - 1)
Cells == (0 .. ROWS - 1) \X (OffCol .. COLS - 1)

generateBanqiBoard(draws) ==
    LET pieces == FisherYates(UnshuffledPieces, draws, Len(UnshuffledPieces) - 1)
    IN  [cell \in Cells |->
            IF cell[2] = OffCol THEN NoPiece
            ELSE LET p == pieces[cell[1] * COLS + cell[2] + 1]
                 IN  [type |-> p.type, color |-> p.color, rank |-> p.rank,
                      faceUp |-> FALSE]]

\* Outcomes of the shuffle's random draws that the model explores.  The first
\* puts a red CANNON, a black SOLDIER and a black GENERAL on (0,0), (0,1),
\* (0,2); the second a red CHARIOT, a black HORSE and a red SOLDIER.
ShuffleDraws ==
    { <<1, 1, 0, 1, 2, 3, 4, 5, 6, 7, 8, 10, 11, 12, 13, 14, 15, 17, 18, 19, 20,
        21, 22, 23, 24, 25, 26, 28, 29, 30, 31>>,
      <<0, 1, 0, 1, 2, 3, 4, 6, 7, 8, 9, 10, 12, 13, 14, 15, 16, 17, 18, 19, 20,
        21, 22, 24, 25, 26, 27, 28, 29, 30, 31>> }

FreshBoards == { generateBanqiBoard(draws) : draws \in ShuffleDraws }

----------------------------------------------------------------------------
\* canCapture and cannonCanCapture

\* canCapture comparing ranks with > where the code has >=
canCaptureStrict(attacker, defender) ==
    IF ~Truthy(attacker) \/ ~Truthy(defender) THEN FALSE
    ELSE IF attacker.color = defender.color THEN FALSE
    ELSE IF attacker.type = "SOLDIER" /\ defender.type = "GENERAL" THEN TRUE
    ELSE IF attacker.type = "GENERAL" /\ defender.type = "SOLDIER" THEN FALSE
    ELSE attacker.rank > defender.rank

canCapture(attacker, defender) ==
    IF ~Truthy(attacker) \/ ~Truthy(defender) THEN FALSE
    ELSE IF attacker.color = defender.color THEN FALSE
    ELSE IF attacker.type = "SOLDIER" /\ defender.type = "GENERAL" THEN TRUE
    ELSE IF attacker.type = "GENERAL" /\ defender.type = "SOLDIER" THEN FALSE
    ELSE attacker.rank >= defender.rank

\* for (let c = fromCol + dir; c !== toCol; c += dir) if (board[fromRow][c]) screens++
RECURSIVE ScreensInRow(_, _, _, _, _)
ScreensInRow(board, row, c, toCol, dir) ==
    IF c = toCol THEN 0
    ELSE (IF Truthy(board[<<row, c>>]) THEN 1 ELSE 0)
         + ScreensInRow(board, row, c + dir, toCol, dir)

\* for (let r = fromRow + dir; r !== toRow; r += dir) if (board[r][fromCol]) screens++
RECURSIVE ScreensInCol(_, _, _, _, _)
ScreensInCol(board, col, r, toRow, dir) ==
    IF r = toRow THEN 0
    ELSE (IF Truthy(board[<<r, col>>]) THEN 1 ELSE 0)
         + ScreensInCol(board, col, r + dir, toRow, dir)

ScreenCount(board, fromRow, fromCol, toRow, toCol) ==
    IF fromRow = toRow
    THEN ScreensInRow(board, fromRow,
                      fromCol + (IF toCol > fromCol THEN 1 ELSE -1), toCol,
                      IF toCol > fromCol THEN 1 ELSE -1)
    ELSE ScreensInCol(board, fromCol,
                      fromRow + (IF toRow > fromRow THEN 1 ELSE -1), toRow,
                      IF toRow > fromRow THEN 1 ELSE -1)

\* cannonCanCapture accepting any number of screens >= 1
cannonCanCaptureAnyScreens(board, fromRow, fromCol, toRow, toCol) ==
    IF fromRow # toRow /\ fromCol # toCol THEN FALSE
    ELSE ScreenCount(board, fromRow, fromCol, toRow, toCol) >= 1

cannonCanCapture(board, fromRow, fromCol, toRow, toCol) ==
    IF fromRow # toRow /\ fromCol # toCol THEN FALSE
    ELSE ScreenCount(board, fromRow, fromCol, toRow, toCol) = 1

----------------------------------------------------------------------------
\* The 'move' handler

Abs(x) == IF x < 0 THEN -x ELSE x

isOrthogonal(fromRow, fromCol, toRow, toCol) ==
    \/ Abs(toRow - fromRow) = 1 /\ Abs(toCol - fromCol) = 0
    \/ Abs(toRow - fromRow) = 0 /\ Abs(toCol - fromCol) = 1

otherPlayerColor(color) == IF color = "red" THEN "black" ELSE "red"

\* socket.id === gameState.player1 ? gameState.player2 : gameState.player1
otherPlayerId(gs, s) == IF s = gs.player1 THEN gs.player2 ELSE gs.player1

isReveal(fromRow, fromCol, toRow, toCol) == fromRow = toRow /\ fromCol = toCol

\* isFirstReveal that forgets firstPieceRevealed
isFirstRevealAnyReveal(gs, fromRow, fromCol, toRow, toCol) ==
    isReveal(fromRow, fromCol, toRow, toCol)

isFirstReveal(gs, fromRow, fromCol, toRow, toCol) ==
    isReveal(fromRow, fromCol, toRow, toCol) /\ ~gs.firstPieceRevealed

\* isPlayerTurn that lets every socket through until the first piece is revealed
isPlayerTurnOnceRevealed(gs, s) == gs.playerTurn = s \/ ~gs.firstPieceRevealed

\* isPlayerTurn that lets every socket through
isPlayerTurnAnyone(gs, s) == TRUE

isPlayerTurn(gs, s) == gs.playerTurn = s

\* banqiGames.set(room, {...}) of a fresh state; player1 is socket.id in
\* createGame and null in the move handler
newGameState(board, player1) ==
    [board |-> board, firstPieceRevealed |-> FALSE, currentPlayer |-> "null",
     turnCount |-> 0, playerTurn |-> NoSocket, player1 |-> player1,
     player2 |-> NoSocket]

\* The value of gameState while banqiGames has no entry for the room.
NoGame == newGameState([cell \in Cells |-> NoPiece], NoSocket)

\* What a branch of the handler leaves behind: the game state, the colour
\* map, moveValid, firstPiece and capturedPiece.
Branch(gs, pc, moveValid, firstPiece, capturedPiece) ==
    [gs |-> gs, pc |-> pc, moveValid |-> moveValid, firstPiece |-> firstPiece,
     capturedPiece |-> capturedPiece]

flipFaceUp(board, row, col) == [board EXCEPT ![<<row, col>>].faceUp = TRUE]

\* firstReveal binding the revealer to the colour opposite to the piece's
firstRevealOpposite(gs, pc, s, toRow, toCol) ==
    LET piece == gs.board[<<toRow, toCol>>]
        other == otherPlayerId(gs, s)
    IN  IF Truthy(piece) /\ ~piece.faceUp
        THEN Branch([gs EXCEPT !.firstPieceRevealed = TRUE,
                               !.turnCount = @ + 1,
                               !.board = flipFaceUp(@, toRow, toCol),
                               !.currentPlayer = piece.color,
                               !.playerTurn = other],
                    [[pc EXCEPT ![s] = otherPlayerColor(piece.color)]
                        EXCEPT ![other] = piece.color],
                    TRUE, piece.color, NoPiece)
        ELSE Branch(gs, pc, FALSE, "null", NoPiece)

\* if (isFirstReveal) { ... }
firstReveal(gs, pc, s, toRow, toCol) ==
    LET piece == gs.board[<<toRow, toCol>>]
        other == otherPlayerId(gs, s)
    IN  IF Truthy(piece) /\ ~piece.faceUp
        THEN Branch([gs EXCEPT !.firstPieceRevealed = TRUE,
                               !.turnCount = @ + 1,
                               !.board = flipFaceUp(@, toRow, toCol),
                               !.currentPlayer = piece.color,
                               !.playerTurn = other],
                    [[pc EXCEPT ![s] = piece.color]
                        EXCEPT ![other] = otherPlayerColor(piece.color)],
                    TRUE, piece.color, NoPiece)
        ELSE Branch(gs, pc, FALSE, "null", NoPiece)

\* laterReveal that does not look at the cell it is asked to reveal
laterRevealAnyCell(gs, pc, s, toRow, toCol) ==
    Branch([gs EXCEPT !.board = IF Truthy(@[<<toRow, toCol>>])
                                 THEN flipFaceUp(@, toRow, toCol) ELSE @,
                      !.turnCount = @ + 1,
                      !.currentPlayer = otherPlayerColor(@),
                      !.playerTurn = otherPlayerId(gs, s)],
           pc, TRUE, "null", NoPiece)

\* else if (isReveal) { ... }
laterReveal(gs, pc, s, toRow, toCol) ==
    LET piece == gs.board[<<toRow, toCol>>]
    IN  IF Truthy(piece) /\ ~piece.faceUp
        THEN Branch([gs EXCEPT !.board = flipFaceUp(@, toRow, toCol),
                               !.turnCount = @ + 1,
                               !.currentPlayer = otherPlayerColor(@),
                               !.playerTurn = otherPlayerId(gs, s)],
                    pc, TRUE, "null", NoPiece)
        ELSE Branch(gs, pc, FALSE, "null", NoPiece)

\* relocate that puts the piece down without its faceUp flag
relocateFaceDown(board, fromRow, fromCol, toRow, toCol) ==
    [board EXCEPT ![<<toRow, toCol>>] = [board[<<fromRow, fromCol>>] EXCEPT !.faceUp = FALSE],
                  ![<<fromRow, fromCol>>] = NoPiece]

\* board[toRow][toCol] = sourcePiece; board[fromRow][fromCol] = null
relocate(board, fromRow, fromCol, toRow, toCol) ==
    [board EXCEPT ![<<toRow, toCol>>] = board[<<fromRow, fromCol>>],
                  ![<<fromRow, fromCol>>] = NoPiece]

\* cannonMove that captures face-down pieces too
cannonMoveFaceDownTarget(gs, pc, fromRow, fromCol, toRow, toCol) ==
    LET sourcePiece == gs.board[<<fromRow, fromCol>>]
        targetPiece == gs.board[<<toRow, toCol>>]
        moved == [gs EXCEPT !.board = relocate(@, fromRow, fromCol, toRow, toCol)]
    IN  IF Truthy(targetPiece)
        THEN IF /\ targetPiece.color # sourcePiece.color
                /\ cannonCanCapture(gs.board, fromRow, fromCol, toRow, toCol)
             THEN Branch(moved, pc, TRUE, "null", targetPiece)
             ELSE Branch(gs, pc, FALSE, "null", NoPiece)
        ELSE IF isOrthogonal(fromRow, fromCol, toRow, toCol)
             THEN Branch(moved, pc, TRUE, "null", NoPiece)
             ELSE Branch(gs, pc, FALSE, "null", NoPiece)

\* cannonMove that also asks canCapture before a capture
cannonMoveRanked(gs, pc, fromRow, fromCol, toRow, toCol) ==
    LET sourcePiece == gs.board[<<fromRow, fromCol>>]
        targetPiece == gs.board[<<toRow, toCol>>]
        moved == [gs EXCEPT !.board = relocate(@, fromRow, fromCol, toRow, toCol)]
    IN  IF Truthy(targetPiece)
        THEN IF /\ targetPiece.faceUp
                /\ targetPiece.color # sourcePiece.color
                /\ cannonCanCapture(gs.board, fromRow, fromCol, toRow, toCol)
                /\ canCapture(sourcePiece, targetPiece)
             THEN Branch(moved, pc, TRUE, "null", targetPiece)
             ELSE Branch(gs, pc, FALSE, "null", NoPiece)
        ELSE IF isOrthogonal(fromRow, fromCol, toRow, toCol)
             THEN Branch(moved, pc, TRUE, "null", NoPiece)
             ELSE Branch(gs, pc, FALSE, "null", NoPiece)

\* if (sourcePiece.type === 'CANNON') { ... }
cannonMove(gs, pc, fromRow, fromCol, toRow, toCol) ==
    LET sourcePiece == gs.board[<<fromRow, fromCol>>]
        targetPiece == gs.board[<<toRow, toCol>>]
        moved == [gs EXCEPT !.board = relocate(@, fromRow, fromCol, toRow, toCol)]
    IN  IF Truthy(targetPiece)
        THEN IF /\ targetPiece.faceUp
                /\ targetPiece.color # sourcePiece.color
                /\ cannonCanCapture(gs.board, fromRow, fromCol, toRow, toCol)
             THEN Branch(moved, pc, TRUE, "null", targetPiece)
             ELSE Branch(gs, pc, FALSE, "null", NoPiece)
        ELSE IF isOrthogonal(fromRow, fromCol, toRow, toCol)
             THEN Branch(moved, pc, TRUE, "null", NoPiece)
             ELSE Branch(gs, pc, FALSE, "null", NoPiece)

\* plainMove that captures without asking canCapture
plainMoveAnyRank(gs, pc, fromRow, fromCol, toRow, toCol) ==
    LET sourcePiece == gs.board[<<fromRow, fromCol>>]
        targetPiece == gs.board[<<toRow, toCol>>]
        moved == [gs EXCEPT !.board = relocate(@, fromRow, fromCol, toRow, toCol)]
    IN  IF isOrthogonal(fromRow, fromCol, toRow, toCol)
        THEN IF ~Truthy(targetPiece)
             THEN Branch(moved, pc, TRUE, "null", NoPiece)
             ELSE IF targetPiece.faceUp /\ targetPiece.color # sourcePiece.color
                  THEN Branch(moved, pc, TRUE, "null", targetPiece)
                  ELSE Branch(gs, pc, FALSE, "null", NoPiece)
        ELSE Branch(gs, pc, FALSE, "null", NoPiece)

\* else { // Non-cannon pieces ... }
plainMove(gs, pc, fromRow, fromCol, toRow, toCol) ==
    LET sourcePiece == gs.board[<<fromRow, fromCol>>]
        targetPiece == gs.board[<<toRow, toCol>>]
        moved == [gs EXCEPT !.board = relocate(@, fromRow, fromCol, toRow, toCol)]
    IN  IF isOrthogonal(fromRow, fromCol, toRow, toCol)
        THEN IF ~Truthy(targetPiece)
             THEN Branch(moved, pc, TRUE, "null", NoPiece)
             ELSE IF /\ targetPiece.faceUp
                     /\ targetPiece.color # sourcePiece.color
                     /\ canCapture(sourcePiece, targetPiece)
                  THEN Branch(moved, pc, TRUE, "null", targetPiece)
                  ELSE Branch(gs, pc, FALSE, "null", NoPiece)
        ELSE Branch(gs, pc, FALSE, "null", NoPiece)

\* regularMove that counts a turn for a source it refuses
regularMoveCountsRefused(gs, pc, s, fromRow, fromCol, toRow, toCol) ==
    LET sourcePiece == gs.board[<<fromRow, fromCol>>]
        playerAssignedColor == pc[s]
    IN  IF /\ Truthy(sourcePiece)
           /\ sourcePiece.faceUp
           /\ sourcePiece.color = playerAssignedColor
           /\ isPlayerTurn(gs, s)
        THEN IF sourcePiece.type = "CANNON"
             THEN cannonMove(gs, pc, fromRow, fromCol, toRow, toCol)
             ELSE plainMove(gs, pc, fromRow, fromCol, toRow, toCol)
        ELSE Branch([gs EXCEPT !.turnCount = @ + 1], pc, FALSE, "null", NoPiece)

\* else { // Regular move (not a reveal) ... }
regularMove(gs, pc, s, fromRow, fromCol, toRow, toCol) ==
    LET sourcePiece == gs.board[<<fromRow, fromCol>>]
        playerAssignedColor == pc[s]
    IN  IF /\ Truthy(sourcePiece)
           /\ sourcePiece.faceUp
           /\ sourcePiece.color = playerAssignedColor
           /\ isPlayerTurn(gs, s)
        THEN IF sourcePiece.type = "CANNON"
             THEN cannonMove(gs, pc, fromRow, fromCol, toRow, toCol)
             ELSE plainMove(gs, pc, fromRow, fromCol, toRow, toCol)
        ELSE Branch(gs, pc, FALSE, "null", NoPiece)

\* acceptedTail that leaves the turn with the requester
acceptedTailKeepsTurn(gs, pc, s) ==
    [gs EXCEPT !.turnCount = @ + 1,
               !.playerTurn = s,
               !.currentPlayer = pc[s]]

\* if (moveValid) { turnCount++; playerTurn = otherPlayerId;
\*                  currentPlayer = playerColors.get(otherPlayerId); ... }
acceptedTail(gs, pc, s) ==
    [gs EXCEPT !.turnCount = @ + 1,
               !.playerTurn = otherPlayerId(gs, s),
               !.currentPlayer = pc[otherPlayerId(gs, s)]]

\* The handler from the turn check on, for a socket whose turn it is.
validate(gs, pc, s, fromRow, fromCol, toRow, toCol) ==
    LET b == IF isFirstReveal(gs, fromRow, fromCol, toRow, toCol)
                THEN firstReveal(gs, pc, s, toRow, toCol)
             ELSE IF isReveal(fromRow, fromCol, toRow, toCol)
                THEN laterReveal(gs, pc, s, toRow, toCol)
             ELSE regularMove(gs, pc, s, fromRow, fromCol, toRow, toCol)
    IN  IF b.moveValid
        THEN [b EXCEPT !.gs = acceptedTail(b.gs, b.pc, s)]
        ELSE b

\* Messages
\* What a JSON-encoded board holds on arrival: the 4 x 8 array elements; a
\* property -1 of a row array is not encoded.
Json(board) == [cell \in GridCells |-> board[cell]]

\* io.to(room).emit('gameStateUpdate', {board, currentPlayer, playerTurn})
GameStateUpdate(to, gs) ==
    [event |-> "gameStateUpdate", to |-> to, board |-> Json(gs.board),
     currentPlayer |-> gs.currentPlayer, playerTurn |-> gs.playerTurn]

NotYourTurn(s) ==
    [event |-> "move", to |-> {s}, playerId |-> s, valid |-> FALSE,
     message |-> "Not your turn"]

MoveAccepted(to, s, b) ==
    [event |-> "move", to |-> to, playerId |-> s, valid |-> TRUE,
     firstPiece |-> b.firstPiece, currentPlayer |-> b.gs.currentPlayer,
     capturedPiece |-> b.capturedPiece, playerTurn |-> b.gs.playerTurn]

NoCaptures == [c \in Colors |-> 0]

NoCall == [op |-> "none"]

Handled(event, s) == [event |-> event, socket |-> s]

\* The handler's effect on the server and what it emits.
moveHandler(s, fromRow, fromCol, toRow, toCol) ==
    /\ connected[s]
    /\ hasGame => gameState.turnCount < MaxTurnCount
    /\ UNCHANGED <<connected, room, members, creator, created, fn, game, clients>>
    /\ IF room[s] = NoRoom
       THEN /\ out' = <<>>
            /\ UNCHANGED <<hasGame, gameState, playerColors, captured, lastAccepted>>
       ELSE \E fresh \in (IF hasGame THEN {gameState.board} ELSE FreshBoards) :
            LET gs == IF hasGame THEN gameState ELSE newGameState(fresh, NoSocket)
            IN  /\ hasGame' = TRUE
                /\ IF ~isPlayerTurn(gs, s)
                   THEN /\ gameState' = gs
                        /\ out' = <<GameStateUpdate(members, gs), NotYourTurn(s)>>
                        /\ captured' = IF hasGame THEN captured ELSE NoCaptures
                        /\ lastAccepted' = IF hasGame THEN lastAccepted ELSE NoSocket
                        /\ UNCHANGED playerColors
                   ELSE LET b == validate(gs, playerColors, s, fromRow, fromCol,
                                          toRow, toCol)
                        IN  /\ gameState' = b.gs
                            /\ playerColors' = b.pc
                            /\ captured' =
                                 IF Truthy(b.capturedPiece)
                                 THEN [captured EXCEPT ![b.capturedPiece.color] = @ + 1]
                                 ELSE captured
                            /\ lastAccepted' = IF b.moveValid THEN s ELSE lastAccepted
                            /\ out' = IF b.moveValid
                                      THEN <<GameStateUpdate(members, gs),
                                             MoveAccepted(members, s, b),
                                             GameStateUpdate(members, b.gs)>>
                                      ELSE <<GameStateUpdate(members, gs)>>

move(s, fromRow, fromCol, toRow, toCol) ==
    /\ last' = Handled("move", s)
    /\ moveHandler(s, fromRow, fromCol, toRow, toCol)

\* The same handler, with the request's data kept in the record of the last event.
HandledMove(s, fromRow, fromCol, toRow, toCol) ==
    [event |-> "move", socket |-> s, from |-> <<fromRow, fromCol>>,
     to |-> <<toRow, toCol>>]

moveLogged(s, fromRow, fromCol, toRow, toCol) ==
    /\ last' = HandledMove(s, fromRow, fromCol, toRow, toCol)
    /\ moveHandler(s, fromRow, fromCol, toRow, toCol)

----------------------------------------------------------------------------
\* createGame, joinGame, reset, disconnect

Emit(event, to) == [event |-> event, to |-> to]

createGame(s) ==
    /\ connected[s]
    /\ ~created
    /\ last' = Handled("createGame", s)
    /\ created' = TRUE
    /\ room' = [room EXCEPT ![s] = Code]
    /\ members' = members \cup {s}
    /\ creator' = s
    /\ hasGame' = TRUE
    /\ \E board \in FreshBoards : gameState' = newGameState(board, s)
    /\ captured' = NoCaptures
    /\ lastAccepted' = NoSocket
    /\ out' = <<Emit("gameCreated", {s})>>
    /\ UNCHANGED <<connected, playerColors, fn, game, clients>>

\* joinGame that lets a socket into a room that is full
joinGameNoLimit(s) ==
    /\ connected[s]
    /\ last' = Handled("joinGame", s)
    /\ UNCHANGED <<connected, creator, created, hasGame, playerColors, captured, fn, game, clients>>
    /\ IF creator = NoSocket
       THEN /\ out' = <<Emit("error", {s})>>
            /\ UNCHANGED <<room, members, gameState, lastAccepted>>
       ELSE /\ room' = [room EXCEPT ![s] = Code]
            /\ members' = members \cup {s}
            /\ lastAccepted' = NoSocket
            /\ IF hasGame
               THEN \E first \in {gameState.player1, s} :
                      gameState' = [gameState EXCEPT !.player2 = s,
                                                     !.playerTurn = first]
               ELSE UNCHANGED gameState
            /\ out' = <<Emit("gameJoined", {s}),
                        Emit("start", members'),
                        Emit("gameReady", members')>>
                       \o (IF hasGame THEN <<GameStateUpdate(members', gameState')>>
                           ELSE <<>>)

joinGame(s) ==
    /\ connected[s]
    /\ last' = Handled("joinGame", s)
    /\ UNCHANGED <<connected, creator, created, hasGame, playerColors, captured, fn, game, clients>>
    /\ IF creator = NoSocket
       THEN /\ out' = <<Emit("error", {s})>>
            /\ UNCHANGED <<room, members, gameState, lastAccepted>>
       ELSE /\ room' = [room EXCEPT ![s] = Code]
            /\ IF Cardinality(members) >= 2
               THEN /\ out' = <<Emit("error", {s})>>
                    /\ UNCHANGED <<members, gameState, lastAccepted>>
               ELSE /\ members' = members \cup {s}
                    /\ lastAccepted' = NoSocket
                    /\ IF hasGame
                       THEN \E first \in {gameState.player1, s} :
                              gameState' = [gameState EXCEPT !.player2 = s,
                                                             !.playerTurn = first]
                       ELSE UNCHANGED gameState
                    /\ out' = <<Emit("gameJoined", {s}),
                                Emit("start", members'),
                                Emit("gameReady", members')>>
                               \o (IF hasGame THEN <<GameStateUpdate(members', gameState')>>
                                   ELSE <<>>)

\* playerColors.delete(id) for a truthy id that has an entry
deleteColor(pc, id) == IF id # NoSocket THEN [pc EXCEPT ![id] = "undefined"] ELSE pc

\* reset that clears the binding of player1 only
resetKeepsPlayer2Colour(s) ==
    /\ connected[s]
    /\ last' = Handled("reset", s)
    /\ UNCHANGED <<connected, room, members, creator, created, hasGame, fn, game, clients>>
    /\ IF room[s] = NoRoom
       THEN /\ out' = <<>>
            /\ UNCHANGED <<gameState, playerColors, captured, lastAccepted>>
       ELSE IF hasGame
       THEN /\ playerColors' = deleteColor(playerColors, gameState.player1)
            /\ \E board \in FreshBoards, first \in {gameState.player1, gameState.player2} :
                 gameState' = [gameState EXCEPT !.board = board,
                                                !.firstPieceRevealed = FALSE,
                                                !.currentPlayer = "null",
                                                !.turnCount = 0,
                                                !.playerTurn = first]
            /\ captured' = NoCaptures
            /\ lastAccepted' = NoSocket
            /\ out' = <<Emit("reset", members), GameStateUpdate(members, gameState')>>
       ELSE /\ out' = <<Emit("reset", members)>>
            /\ UNCHANGED <<gameState, playerColors, captured, lastAccepted>>

reset(s) ==
    /\ connected[s]
    /\ last' = Handled("reset", s)
    /\ UNCHANGED <<connected, room, members, creator, created, hasGame, fn, game, clients>>
    /\ IF room[s] = NoRoom
       THEN /\ out' = <<>>
            /\ UNCHANGED <<gameState, playerColors, captured, lastAccepted>>
       ELSE IF hasGame
       THEN /\ playerColors' = deleteColor(deleteColor(playerColors, gameState.player1),
                                           gameState.player2)
            /\ \E board \in FreshBoards, first \in {gameState.player1, gameState.player2} :
                 gameState' = [gameState EXCEPT !.board = board,
                                                !.firstPieceRevealed = FALSE,
                                                !.currentPlayer = "null",
                                                !.turnCount = 0,
                                                !.playerTurn = first]
            /\ captured' = NoCaptures
            /\ lastAccepted' = NoSocket
            /\ out' = <<Emit("reset", members), GameStateUpdate(members, gameState')>>
       ELSE /\ out' = <<Emit("reset", members)>>
            /\ UNCHANGED <<gameState, playerColors, captured, lastAccepted>>

disconnect(s) ==
    /\ connected[s]
    /\ last' = Handled("disconnect", s)
    /\ connected' = [connected EXCEPT ![s] = FALSE]
    /\ members' = members \ {s}
    /\ UNCHANGED <<room, created, fn, game, clients>>
    /\ IF room[s] = NoRoom
       THEN /\ out' = <<>>
            /\ UNCHANGED <<creator, hasGame, gameState, playerColors, captured,
                           lastAccepted>>
       ELSE /\ out' = <<Emit("opponentLeft", members'), Emit("reset", members')>>
            /\ playerColors' = [playerColors EXCEPT ![s] = "undefined"]
            /\ IF creator = s
               THEN /\ creator' = NoSocket
                    /\ hasGame' = FALSE
                    /\ gameState' = NoGame
                    /\ captured' = NoCaptures
                    /\ lastAccepted' = NoSocket
               ELSE UNCHANGED <<creator, hasGame, gameState, captured, lastAccepted>>

----------------------------------------------------------------------------
\* The class Banqi: one game played through makeMove, with its own turn
\* bookkeeping and its own end of game.  selectedPiece, validMoves and
\* lastMove, which no method reads, are left out.

\* isValidPosition(row, col)
isValidPosition(row, col) == row >= 0 /\ row < ROWS /\ col >= 0 /\ col < COLS

\* isOrthogonalMove(fromRow, fromCol, toRow, toCol)
isOrthogonalMove(fromRow, fromCol, toRow, toCol) ==
    \/ Abs(toRow - fromRow) = 1 /\ Abs(toCol - fromCol) = 0
    \/ Abs(toRow - fromRow) = 0 /\ Abs(toCol - fromCol) = 1

\* Banqi.canCapture(attacker, defender): ranks only, both pieces present
canCaptureByRank(attacker, defender) ==
    IF attacker.type = "SOLDIER" /\ defender.type = "GENERAL" THEN TRUE
    ELSE IF attacker.type = "GENERAL" /\ defender.type = "SOLDIER" THEN FALSE
    ELSE attacker.rank >= defender.rank

\* switchPlayer()
switchPlayer(g) == [g EXCEPT !.currentPlayer = IF @ = "red" THEN "black" ELSE "red"]

\* What a method leaves behind: the instance and the value it returns.
Ret(g, result) == [game |-> g, result |-> result]

\* initializePieces(): the shuffled pieces laid out row by row, face-down
initializePieces(draws) ==
    LET pieces == FisherYates(UnshuffledPieces, draws, Len(UnshuffledPieces) - 1)
    IN  [cell \in GridCells |->
            LET p == pieces[cell[1] * COLS + cell[2] + 1]
            IN  [type |-> p.type, color |-> p.color, rank |-> p.rank,
                 faceUp |-> FALSE]]

\* reset(), and with it the constructor
resetBanqi(draws) ==
    [board |-> initializePieces(draws), currentPlayer |-> "red",
     gameActive |-> TRUE, winner |-> "null", turnCount |-> 0]

\* revealPiece(row, col)
revealPiece(g, row, col) ==
    IF ~isValidPosition(row, col) THEN Ret(g, FALSE)
    ELSE LET piece == g.board[<<row, col>>]
         IN  IF ~Truthy(piece) \/ piece.faceUp THEN Ret(g, FALSE)
             ELSE Ret([g EXCEPT !.board = flipFaceUp(@, row, col),
                                !.currentPlayer =
                                    IF g.turnCount = 0 THEN piece.color
                                    ELSE switchPlayer(g).currentPlayer,
                                !.turnCount = @ + 1],
                      TRUE)

\* getValidMoves, the cannon's loop in one direction from the adjacent,
\* occupied cell (r, c): the first piece met beyond it is pushed if it is
\* face-up and not the current player's; a second piece ends the loop.
RECURSIVE JumpTargets(_, _, _, _, _)
JumpTargets(g, r, c, dr, dc) ==
    IF ~isValidPosition(r + dr, c + dc) THEN {}
    ELSE LET jumpTarget == g.board[<<r + dr, c + dc>>]
         IN  IF Truthy(jumpTarget)
             THEN IF jumpTarget.faceUp /\ jumpTarget.color # g.currentPlayer
                  THEN {<<r + dr, c + dc>>}
                  ELSE {}
             ELSE JumpTargets(g, r + dr, c + dc, dr, dc)

directions == {<<-1, 0>>, <<0, 1>>, <<1, 0>>, <<0, -1>>}

\* getValidMoves(row, col), as the set of the positions pushed
getValidMoves(g, row, col) ==
    LET piece == g.board[<<row, col>>]
    IN  IF ~Truthy(piece) \/ ~piece.faceUp \/ piece.color # g.currentPlayer THEN {}
        ELSE UNION { LET newRow == row + d[1]
                         newCol == col + d[2]
                     IN  IF ~isValidPosition(newRow, newCol) THEN {}
                         ELSE LET targetPiece == g.board[<<newRow, newCol>>]
                              IN  IF piece.type = "CANNON"
                                  THEN IF ~Truthy(targetPiece)
                                       THEN {<<newRow, newCol>>}
                                       ELSE JumpTargets(g, newRow, newCol, d[1], d[2])
                                  ELSE IF ~Truthy(targetPiece)
                                       THEN {<<newRow, newCol>>}
                                       ELSE IF /\ targetPiece.faceUp
                                               /\ targetPiece.color # g.currentPlayer
                                               /\ canCaptureByRank(piece, targetPiece)
                                            THEN {<<newRow, newCol>>}
                                            ELSE {}
                     : d \in directions }

\* The face-up pieces of one colour, as checkGameOver counts them.
FaceUpCount(board, color) ==
    Cardinality({cell \in GridCells :
                   Truthy(board[cell]) /\ board[cell].faceUp /\ board[cell].color = color})

\* checkGameOver()
checkGameOver(g) ==
    LET hasValidMoves ==
            \E cell \in GridCells :
                LET piece == g.board[cell]
                IN  \/ Truthy(piece) /\ ~piece.faceUp
                    \/ /\ Truthy(piece)
                       /\ piece.faceUp
                       /\ piece.color = g.currentPlayer
                       /\ getValidMoves(g, cell[1], cell[2]) # {}
    IN  IF FaceUpCount(g.board, "red") = 0
        THEN [g EXCEPT !.gameActive = FALSE, !.winner = "black"]
        ELSE IF FaceUpCount(g.board, "black") = 0
        THEN [g EXCEPT !.gameActive = FALSE, !.winner = "red"]
        ELSE IF ~hasValidMoves
        THEN [g EXCEPT !.gameActive = FALSE,
                       !.winner = IF g.currentPlayer = "red" THEN "black" ELSE "red"]
        ELSE g

\* while (r !== toRow || c !== toCol) { if (board[r][c]) screenCount++; ... }
RECURSIVE screenCount(_, _, _, _, _, _, _)
screenCount(board, r, c, toRow, toCol, rowDir, colDir) ==
    IF r = toRow /\ c = toCol THEN 0
    ELSE (IF Truthy(board[<<r, c>>]) THEN 1 ELSE 0)
         + screenCount(board, r + rowDir, c + colDir, toRow, toCol, rowDir, colDir)

\* board[toRow][toCol] = source piece; board[fromRow][fromCol] = null;
\* switchPlayer(); turnCount++
performMove(g, fromRow, fromCol, toRow, toCol) ==
    [switchPlayer(g) EXCEPT !.board = relocate(@, fromRow, fromCol, toRow, toCol),
                            !.turnCount = @ + 1]

\* handleCannonMove(fromRow, fromCol, toRow, toCol)
handleCannonMove(g, fromRow, fromCol, toRow, toCol) ==
    LET targetPiece == g.board[<<toRow, toCol>>]
        rowDir == IF fromRow = toRow THEN 0 ELSE IF toRow > fromRow THEN 1 ELSE -1
        colDir == IF fromCol = toCol THEN 0 ELSE IF toCol > fromCol THEN 1 ELSE -1
    IN  IF ~Truthy(targetPiece)
        THEN IF ~isOrthogonalMove(fromRow, fromCol, toRow, toCol) THEN Ret(g, FALSE)
             ELSE Ret(performMove(g, fromRow, fromCol, toRow, toCol), TRUE)
        ELSE IF fromRow # toRow /\ fromCol # toCol THEN Ret(g, FALSE)
        ELSE IF screenCount(g.board, fromRow + rowDir, fromCol + colDir,
                            toRow, toCol, rowDir, colDir) # 1 THEN Ret(g, FALSE)
        ELSE IF ~targetPiece.faceUp THEN Ret(g, FALSE)
        ELSE IF targetPiece.color = g.currentPlayer THEN Ret(g, FALSE)
        ELSE Ret(checkGameOver(performMove(g, fromRow, fromCol, toRow, toCol)), TRUE)

\* movePiece(fromRow, fromCol, toRow, toCol)
movePiece(g, fromRow, fromCol, toRow, toCol) ==
    IF ~isValidPosition(fromRow, fromCol) \/ ~isValidPosition(toRow, toCol)
    THEN Ret(g, FALSE)
    ELSE LET sourcePiece == g.board[<<fromRow, fromCol>>]
             targetPiece == g.board[<<toRow, toCol>>]
         IN  IF ~Truthy(sourcePiece) \/ ~sourcePiece.faceUp THEN Ret(g, FALSE)
             ELSE IF sourcePiece.color # g.currentPlayer THEN Ret(g, FALSE)
             ELSE IF ~isOrthogonalMove(fromRow, fromCol, toRow, toCol) THEN Ret(g, FALSE)
             ELSE IF sourcePiece.type = "CANNON"
                  THEN handleCannonMove(g, fromRow, fromCol, toRow, toCol)
             ELSE IF /\ Truthy(targetPiece)
                     /\ \/ ~targetPiece.faceUp
                        \/ targetPiece.color = g.currentPlayer
                        \/ ~canCaptureByRank(sourcePiece, targetPiece)
                  THEN Ret(g, FALSE)
             ELSE Ret(checkGameOver(performMove(g, fromRow, fromCol, toRow, toCol)),
                      TRUE)

\* makeMove that goes on after the game has ended
makeMoveAfterEnd(g, fromRow, fromCol, toRow, toCol) ==
    IF fromRow = toRow /\ fromCol = toCol THEN revealPiece(g, toRow, toCol)
    ELSE movePiece(g, fromRow, fromCol, toRow, toCol)

\* makeMove(fromRow, fromCol, toRow, toCol)
makeMove(g, fromRow, fromCol, toRow, toCol) ==
    IF ~g.gameActive THEN Ret(g, FALSE)
    ELSE IF fromRow = toRow /\ fromCol = toCol THEN revealPiece(g, toRow, toCol)
    ELSE movePiece(g, fromRow, fromCol, toRow, toCol)

\* The value of `game` where no instance is under consideration.
NoBanqi ==
    [board |-> [cell \in GridCells |-> NoPiece], currentPlayer |-> "red",
     gameActive |-> FALSE, winner |-> "null", turnCount |-> 0]

----------------------------------------------------------------------------
\* The browser client (BanqiGame): the state its socket listeners keep

\* useState(null) for board, playerColor, opponentColor and currentTurn,
\* useState('waiting') for gamePhase, useState(false) for isMyTurn
newClient ==
    [board |-> <<>>, isMyTurn |-> FALSE, currentTurn |-> "null",
     playerColor |-> "null", opponentColor |-> "null", gamePhase |-> "waiting"]

\* onGameStateUpdate that only looks at the turn
onGameStateUpdateTurnOnly(client, s, data) ==
    [client EXCEPT !.isMyTurn = (data.playerTurn = s)]

\* socket.on('gameStateUpdate', data => ...)
onGameStateUpdate(client, s, data) ==
    [client EXCEPT !.board = data.board,
                   !.isMyTurn = (data.playerTurn = s),
                   !.currentTurn = data.currentPlayer]

\* if (data.result && data.result.firstPiece) { ... }: the revealer of the
\* first piece takes its colour, the other client the opposite one
onFirstPiece(client, s, data) ==
    IF data.valid /\ data.firstPiece # "null"
    THEN IF data.playerId = s
         THEN [client EXCEPT !.playerColor = data.firstPiece,
                             !.opponentColor = otherPlayerColor(data.firstPiece)]
         ELSE [client EXCEPT !.playerColor = otherPlayerColor(data.firstPiece),
                             !.opponentColor = data.firstPiece]
    ELSE client

\* socket.on('move', data => ...): the first piece, then
\* if (data.result && data.result.playerTurn)
\* setIsMyTurn(data.result.playerTurn === socket.id)
onMove(client, s, data) ==
    LET coloured == onFirstPiece(client, s, data)
    IN  IF data.valid /\ data.playerTurn # NoSocket
        THEN [coloured EXCEPT !.isMyTurn = (data.playerTurn = s)]
        ELSE coloured

\* socket.on('reset', () => ...)
onReset(client) == [client EXCEPT !.playerColor = "null", !.opponentColor = "null"]

\* socket.on('gameReady', data => ...)
onGameReady(client) == [client EXCEPT !.gamePhase = "playing"]

\* socket.on('opponentLeft', () => ...)
onOpponentLeft(client) == [client EXCEPT !.gamePhase = "waiting"]

\* The listener of the message's event; BanqiGame has none for the others.
onMessage(client, s, data) ==
    IF data.event = "gameStateUpdate" THEN onGameStateUpdate(client, s, data)
    ELSE IF data.event = "move" THEN onMove(client, s, data)
    ELSE IF data.event = "reset" THEN onReset(client)
    ELSE IF data.event = "gameReady" THEN onGameReady(client)
    ELSE IF data.event = "opponentLeft" THEN onOpponentLeft(client)
    ELSE client

\* The client of socket s after the messages sent to s have arrived, in order.
RECURSIVE Delivered(_, _, _)
Delivered(client, s, messages) ==
    IF messages = <<>> THEN client
    ELSE Delivered(IF s \in Head(messages).to
                   THEN onMessage(client, s, Head(messages))
                   ELSE client,
                   s, Tail(messages))

\* if (newRow < 0 || newRow >= 4 || newCol < 0 || newCol >= 8) continue;
offBoard(row, col) == row < 0 \/ row >= 4 \/ col < 0 \/ col >= 8

\* const directions = [[-1, 0], [0, 1], [1, 0], [0, -1]];
directionsClient == {<<-1, 0>>, <<0, 1>>, <<1, 0>>, <<0, -1>>}

\* The while (true) loop of getValidMoves: the first piece met beyond the
\* cell next to the cannon, if it is face-up and not of the client's colour.
RECURSIVE JumpTargetsClient(_, _, _, _, _)
JumpTargetsClient(client, r, c, dr, dc) ==
    IF offBoard(r + dr, c + dc) THEN {}
    ELSE LET jumpTarget == client.board[<<r + dr, c + dc>>]
         IN  IF Truthy(jumpTarget)
             THEN IF jumpTarget.faceUp /\ jumpTarget.color # client.playerColor
                  THEN {<<r + dr, c + dc>>}
                  ELSE {}
             ELSE JumpTargetsClient(client, r + dr, c + dc, dr, dc)

\* The rank rule written out in getValidMoves
canCaptureClient(piece, targetPiece) ==
    IF piece.type = "GENERAL" /\ targetPiece.type = "SOLDIER" THEN FALSE
    ELSE IF piece.type = "SOLDIER" /\ targetPiece.type = "GENERAL" THEN TRUE
    ELSE pieceTypes[piece.type].rank >= pieceTypes[targetPiece.type].rank

\* What getValidMoves(row, col) pushes for one direction
MovesToward(client, row, col, d) ==
    LET piece == client.board[<<row, col>>]
        newRow == row + d[1]
        newCol == col + d[2]
        none == [validMoves |-> {}, captureableMoves |-> {}]
    IN  IF offBoard(newRow, newCol) THEN none
        ELSE LET targetPiece == client.board[<<newRow, newCol>>]
             IN  IF ~Truthy(targetPiece)
                 THEN [none EXCEPT !.validMoves = {<<newRow, newCol>>}]
                 ELSE IF piece.type = "CANNON"
                 THEN IF targetPiece.faceUp
                      THEN [none EXCEPT !.captureableMoves =
                                JumpTargetsClient(client, newRow, newCol, d[1], d[2])]
                      ELSE none
                 ELSE IF /\ targetPiece.faceUp
                         /\ targetPiece.color # client.playerColor
                         /\ canCaptureClient(piece, targetPiece)
                      THEN [none EXCEPT !.captureableMoves = {<<newRow, newCol>>}]
                      ELSE none

\* getValidMoves(row, col) of BanqiGame, the two arrays as sets of positions
getValidMovesClient(client, row, col) ==
    LET piece == client.board[<<row, col>>]
    IN  IF \/ client.board = <<>>
           \/ ~Truthy(piece)
           \/ ~piece.faceUp
           \/ piece.color # client.playerColor
        THEN [validMoves |-> {}, captureableMoves |-> {}]
        ELSE [validMoves |->
                 UNION {MovesToward(client, row, col, d).validMoves : d \in directionsClient},
              captureableMoves |->
                 UNION {MovesToward(client, row, col, d).captureableMoves : d \in directionsClient}]

\* The clients as their components mount.
NewClients == [s \in Sockets |-> newClient]

----------------------------------------------------------------------------
\* The server: started, the sockets connected, no game created yet

Init ==
    /\ connected = [s \in Sockets |-> TRUE]
    /\ room = [s \in Sockets |-> NoRoom]
    /\ members = {}
    /\ creator = NoSocket
    /\ created = FALSE
    /\ hasGame = FALSE
    /\ gameState = NoGame
    /\ playerColors = [id \in Sockets \cup {NoSocket} |-> "undefined"]
    /\ captured = NoCaptures
    /\ lastAccepted = NoSocket
    /\ last = Handled("none", NoSocket)
    /\ out = <<>>
    /\ fn = NoCall
    /\ game = NoBanqi
    /\ clients = NewClients

Move ==
    \E s \in Sockets, fromRow \in ReqRows, fromCol \in ReqCols,
       toRow \in ReqRows, toCol \in ReqCols :
        move(s, fromRow, fromCol, toRow, toCol)

CreateGame == \E s \in Creators : createGame(s)

JoinGame == \E s \in Sockets : joinGame(s)

Reset == \E s \in Sockets : reset(s)

Disconnect == \E s \in Sockets : disconnect(s)

Next == CreateGame \/ JoinGame \/ Move \/ Reset \/ Disconnect

Spec == Init /\ [][Next]_vars

\* The server with the sockets of Players sending requests, and each 'move'
\* request's data on record.
MoveLogged ==
    \E s \in Players, fromRow \in ReqRows, fromCol \in ReqCols,
       toRow \in ReqRows, toCol \in ReqCols :
        moveLogged(s, fromRow, fromCol, toRow, toCol)

JoinGameLogged == \E s \in Players : joinGame(s)

ResetLogged == \E s \in Players : reset(s)

DisconnectLogged == \E s \in Players : disconnect(s)

NextLogged ==
    CreateGame \/ JoinGameLogged \/ MoveLogged \/ ResetLogged \/ DisconnectLogged

SpecLogged == Init /\ [][NextLogged]_vars

----------------------------------------------------------------------------
\* The server with 'move' requests that carry, besides the coordinates, a
\* field the client declares: the colour it claims to play.

\* data of a 'move' request: the four coordinates and the declared colour
Requests(rows, cols) ==
    [fromRow : rows, fromCol : cols, toRow : rows, toCol : cols, color : Colors]

\* Columns of the requests that declare a colour.
DeclaredCols == 0 .. 2

\* The handler taking the requester to be the socket bound to data.color
moveRequestByColour(s, data) ==
    LET claimed == {p \in Sockets : /\ playerColors[p] = data.color
                                    /\ connected[p]
                                    /\ room[p] = Code}
    IN  IF claimed # {}
        THEN moveHandler(CHOOSE p \in claimed : TRUE,
                         data.fromRow, data.fromCol, data.toRow, data.toCol)
        ELSE moveHandler(s, data.fromRow, data.fromCol, data.toRow, data.toCol)

\* socket.on('move', data => ...): what the handler reads of data
moveRequest(s, data) ==
    moveHandler(s, data.fromRow, data.fromCol, data.toRow, data.toCol)

HandledRequest(s, data) ==
    [event |-> "move", socket |-> s, from |-> <<data.fromRow, data.fromCol>>,
     to |-> <<data.toRow, data.toCol>>, color |-> data.color]

MoveDeclared ==
    \E s \in Players, data \in Requests(ReqRows, DeclaredCols) :
        /\ last' = HandledRequest(s, data)
        /\ moveRequest(s, data)

NextDeclared ==
    CreateGame \/ JoinGameLogged \/ MoveDeclared \/ ResetLogged \/ DisconnectLogged

SpecDeclared == Init /\ [][NextDeclared]_vars

----------------------------------------------------------------------------
\* The server and the browser clients that drive its sockets.  What a
\* handler emits reaches the clients before the server handles the next
\* event: each client receives its messages in the order they were sent, so
\* the state a client is in once everything has arrived does not depend on
\* how arrivals and handlers interleave.

\* The messages of the last handler arrive at the connected sockets.
Deliver ==
    /\ out # <<>>
    /\ clients' = [s \in Sockets |->
                     IF connected[s] THEN Delivered(clients[s], s, out)
                     ELSE clients[s]]
    /\ out' = <<>>
    /\ UNCHANGED <<connected, room, members, creator, created, hasGame, gameState,
                   playerColors, captured, lastAccepted, last, fn, game>>

\* Columns of the squares clicked while the clients are followed (row 0).
ClientCols == 0 .. 1

\* handleSquareClick: if (!board || gamePhase !== 'playing') return;
\* if (!isMyTurn) return;
canClick(client) == client.board # <<>> /\ client.gamePhase = "playing" /\ client.isMyTurn

\* A click that sends a 'move' request; which squares are clicked is left open.
MoveClient ==
    /\ out = <<>>
    /\ \E s \in Players, fromCol \in ClientCols, toCol \in ClientCols :
          /\ canClick(clients[s])
          /\ move(s, 0, fromCol, 0, toCol)

\* The "Create New Game" button
CreateGameClient == out = <<>> /\ CreateGame

\* The "Join" button of the lobby, pressed by a client that is in no game
JoinGameClient ==
    /\ out = <<>>
    /\ \E s \in Players : room[s] = NoRoom /\ joinGame(s)

\* The "Reset Game" button
ResetClient == out = <<>> /\ ResetLogged

\* The browser tab is closed.
DisconnectClient == out = <<>> /\ DisconnectLogged

NextClient ==
    \/ CreateGameClient
    \/ JoinGameClient
    \/ MoveClient
    \/ ResetClient
    \/ DisconnectClient
    \/ Deliver

SpecClient == Init /\ [][NextClient]_vars

----------------------------------------------------------------------------
\* The earlier server file: no playerColors map; the colour to move is
\* tracked by toggling gameState.currentPlayer.  createGame and joinGame are
\* the same text in both files.

\* if (isFirstReveal) { ... }
firstReveal000(gs, pc, s, toRow, toCol) ==
    LET piece == gs.board[<<toRow, toCol>>]
    IN  IF Truthy(piece) /\ ~piece.faceUp
        THEN Branch([gs EXCEPT !.firstPieceRevealed = TRUE,
                               !.turnCount = @ + 1,
                               !.board = flipFaceUp(@, toRow, toCol),
                               !.currentPlayer = piece.color,
                               !.playerTurn = otherPlayerId(gs, s)],
                    pc, TRUE, piece.color, NoPiece)
        ELSE Branch(gs, pc, FALSE, "null", NoPiece)

\* else if (isReveal) { ... }
laterReveal000(gs, pc, s, toRow, toCol) ==
    LET piece == gs.board[<<toRow, toCol>>]
    IN  IF Truthy(piece) /\ ~piece.faceUp
        THEN Branch([gs EXCEPT !.board = flipFaceUp(@, toRow, toCol),
                               !.turnCount = @ + 1,
                               !.currentPlayer = otherPlayerColor(@),
                               !.playerTurn = otherPlayerId(gs, s)],
                    pc, TRUE, "null", NoPiece)
        ELSE Branch(gs, pc, FALSE, "null", NoPiece)

\* else { // Regular move (not a reveal) ... }
regularMove000(gs, pc, fromRow, fromCol, toRow, toCol) ==
    LET sourcePiece == gs.board[<<fromRow, fromCol>>]
        targetPiece == gs.board[<<toRow, toCol>>]
        moved == [gs EXCEPT !.board = relocate(@, fromRow, fromCol, toRow, toCol)]
    IN  IF /\ Truthy(sourcePiece)
           /\ sourcePiece.faceUp
           /\ sourcePiece.color = gs.currentPlayer
        THEN IF sourcePiece.type = "CANNON"
             THEN IF Truthy(targetPiece)
                  THEN IF /\ targetPiece.faceUp
                          /\ targetPiece.color # sourcePiece.color
                          /\ cannonCanCapture(gs.board, fromRow, fromCol, toRow, toCol)
                       THEN Branch(moved, pc, TRUE, "null", targetPiece)
                       ELSE Branch(gs, pc, FALSE, "null", NoPiece)
                  ELSE IF isOrthogonal(fromRow, fromCol, toRow, toCol)
                       THEN Branch(moved, pc, TRUE, "null", NoPiece)
                       ELSE Branch(gs, pc, FALSE, "null", NoPiece)
             ELSE IF isOrthogonal(fromRow, fromCol, toRow, toCol)
                  THEN IF ~Truthy(targetPiece)
                       THEN Branch(moved, pc, TRUE, "null", NoPiece)
                       ELSE IF targetPiece.faceUp /\ canCapture(sourcePiece, targetPiece)
                            THEN Branch(moved, pc, TRUE, "null", targetPiece)
                            ELSE Branch(gs, pc, FALSE, "null", NoPiece)
                  ELSE Branch(gs, pc, FALSE, "null", NoPiece)
        ELSE Branch(gs, pc, FALSE, "null", NoPiece)

\* if (moveValid) { turnCount++; currentPlayer = the other colour;
\*                  playerTurn = otherPlayerId; ... }
acceptedTail000(gs, s) ==
    [gs EXCEPT !.turnCount = @ + 1,
               !.currentPlayer = otherPlayerColor(@),
               !.playerTurn = otherPlayerId(gs, s)]

validate000(gs, pc, s, fromRow, fromCol, toRow, toCol) ==
    LET b == IF isFirstReveal(gs, fromRow, fromCol, toRow, toCol)
                THEN firstReveal000(gs, pc, s, toRow, toCol)
             ELSE IF isReveal(fromRow, fromCol, toRow, toCol)
                THEN laterReveal000(gs, pc, s, toRow, toCol)
             ELSE regularMove000(gs, pc, fromRow, fromCol, toRow, toCol)
    IN  IF b.moveValid
        THEN [b EXCEPT !.gs = acceptedTail000(b.gs, s)]
        ELSE b

move000(s, fromRow, fromCol, toRow, toCol) ==
    /\ connected[s]
    /\ hasGame => gameState.turnCount < MaxTurnCount
    /\ last' = Handled("move", s)
    /\ UNCHANGED <<connected, room, members, creator, created, playerColors, fn, game, clients>>
    /\ IF room[s] = NoRoom
       THEN /\ out' = <<>>
            /\ UNCHANGED <<hasGame, gameState, captured, lastAccepted>>
       ELSE \E fresh \in (IF hasGame THEN {gameState.board} ELSE FreshBoards) :
            LET gs == IF hasGame THEN gameState ELSE newGameState(fresh, NoSocket)
            IN  /\ hasGame' = TRUE
                /\ IF ~isPlayerTurn(gs, s)
                   THEN /\ gameState' = gs
                        /\ out' = <<GameStateUpdate(members, gs), NotYourTurn(s)>>
                        /\ captured' = IF hasGame THEN captured ELSE NoCaptures
                        /\ lastAccepted' = IF hasGame THEN lastAccepted ELSE NoSocket
                   ELSE LET b == validate000(gs, playerColors, s, fromRow, fromCol,
                                             toRow, toCol)
                        IN  /\ gameState' = b.gs
                            /\ captured' =
                                 IF Truthy(b.capturedPiece)
                                 THEN [captured EXCEPT ![b.capturedPiece.color] = @ + 1]
                                 ELSE captured
                            /\ lastAccepted' = IF b.moveValid THEN s ELSE lastAccepted
                            /\ out' = IF b.moveValid
                                      THEN <<GameStateUpdate(members, gs),
                                             MoveAccepted(members, s, b),
                                             GameStateUpdate(members, b.gs)>>
                                      ELSE <<GameStateUpdate(members, gs)>>

reset000(s) ==
    /\ connected[s]
    /\ last' = Handled("reset", s)
    /\ UNCHANGED <<connected, room, members, creator, created, hasGame,
                   playerColors, fn, game, clients>>
    /\ IF room[s] = NoRoom
       THEN /\ out' = <<>>
            /\ UNCHANGED <<gameState, captured, lastAccepted>>
       ELSE IF hasGame
       THEN /\ \E board \in FreshBoards, first \in {gameState.player1, gameState.player2} :
                 gameState' = [gameState EXCEPT !.board = board,
                                                !.firstPieceRevealed = FALSE,
                                                !.currentPlayer = "null",
                                                !.turnCount = 0,
                                                !.playerTurn = first]
            /\ captured' = NoCaptures
            /\ lastAccepted' = NoSocket
            /\ out' = <<Emit("reset", members), GameStateUpdate(members, gameState')>>
       ELSE /\ out' = <<Emit("reset", members)>>
            /\ UNCHANGED <<gameState, captured, lastAccepted>>

disconnect000(s) ==
    /\ connected[s]
    /\ last' = Handled("disconnect", s)
    /\ connected' = [connected EXCEPT ![s] = FALSE]
    /\ members' = members \ {s}
    /\ UNCHANGED <<room, created, playerColors, fn, game, clients>>
    /\ IF room[s] = NoRoom
       THEN /\ out' = <<>>
            /\ UNCHANGED <<creator, hasGame, gameState, captured, lastAccepted>>
       ELSE /\ out' = <<Emit("opponentLeft", members'), Emit("reset", members')>>
            /\ IF creator = s
               THEN /\ creator' = NoSocket
                    /\ hasGame' = FALSE
                    /\ gameState' = NoGame
                    /\ captured' = NoCaptures
                    /\ lastAccepted' = NoSocket
               ELSE UNCHANGED <<creator, hasGame, gameState, captured, lastAccepted>>

Move000 ==
    \E s \in Sockets, fromRow \in ReqRows, fromCol \in ReqCols,
       toRow \in ReqRows, toCol \in ReqCols :
        move000(s, fromRow, fromCol, toRow, toCol)

Reset000 == \E s \in Sockets : reset000(s)

Disconnect000 == \E s \in Sockets : disconnect000(s)

Next000 == CreateGame \/ JoinGame \/ Move000 \/ Reset000 \/ Disconnect000

Spec000 == Init /\ [][Next000]_vars

----------------------------------------------------------------------------
\* canCapture applied to every pair of pieces

Pieces ==
    { [type |-> t, color |-> c, rank |-> pieceTypes[t].rank, faceUp |-> f] :
        t \in DOMAIN pieceTypes, c \in Colors, f \in BOOLEAN }

InitCapture ==
    /\ connected = [s \in Sockets |-> TRUE]
    /\ room = [s \in Sockets |-> NoRoom]
    /\ members = {}
    /\ creator = NoSocket
    /\ created = FALSE
    /\ hasGame = FALSE
    /\ gameState = NoGame
    /\ playerColors = [id \in Sockets \cup {NoSocket} |-> "undefined"]
    /\ captured = NoCaptures
    /\ lastAccepted = NoSocket
    /\ last = Handled("none", NoSocket)
    /\ out = <<>>
    /\ fn \in { [op |-> "canCapture", attacker |-> a, defender |-> d,
                 done |-> FALSE, result |-> FALSE] : a \in Pieces, d \in Pieces }
    /\ game = NoBanqi
    /\ clients = NewClients

CallCanCapture ==
    /\ fn.op = "canCapture"
    /\ ~fn.done
    /\ fn' = [fn EXCEPT !.done = TRUE,
                        !.result = canCapture(fn.attacker, fn.defender)]
    /\ UNCHANGED <<connected, room, members, creator, created, hasGame, gameState,
                   playerColors, captured, lastAccepted, last, out, game, clients>>

SpecCapture == InitCapture /\ [][CallCanCapture]_vars

----------------------------------------------------------------------------
\* cannonCanCapture applied to boards with any cells of two lines emptied

\* Length of the row and of the column the boards vary on.
LineLen == 4

LineCells ==
    { cell \in GridCells : \/ cell[1] = 0 /\ cell[2] < LineLen
                           \/ cell[2] = 0 /\ cell[1] < LineLen }

\* board with the cells of `empty` cleared and every piece's faceUp set to `up`
Prepared(board, empty, up) ==
    [cell \in Cells |->
        IF cell \in empty \/ ~Truthy(board[cell]) THEN NoPiece
        ELSE [board[cell] EXCEPT !.faceUp = up]]

CannonBoards ==
    { Prepared(board, empty, up) :
        board \in FreshBoards, empty \in SUBSET LineCells, up \in BOOLEAN }

InitCannon ==
    /\ connected = [s \in Sockets |-> TRUE]
    /\ room = [s \in Sockets |-> NoRoom]
    /\ members = {}
    /\ creator = NoSocket
    /\ created = FALSE
    /\ hasGame = FALSE
    /\ gameState = NoGame
    /\ playerColors = [id \in Sockets \cup {NoSocket} |-> "undefined"]
    /\ captured = NoCaptures
    /\ lastAccepted = NoSocket
    /\ last = Handled("none", NoSocket)
    /\ out = <<>>
    /\ fn \in { [op |-> "cannonCanCapture", board |-> b, from |-> f, to |-> t,
                 done |-> FALSE, result |-> FALSE] :
                b \in CannonBoards, f \in LineCells, t \in LineCells }
    /\ fn.from # fn.to
    /\ game = NoBanqi
    /\ clients = NewClients

CallCannonCanCapture ==
    /\ fn.op = "cannonCanCapture"
    /\ ~fn.done
    /\ fn' = [fn EXCEPT !.done = TRUE,
                        !.result = cannonCanCapture(fn.board, fn.from[1], fn.from[2],
                                                    fn.to[1], fn.to[2])]
    /\ UNCHANGED <<connected, room, members, creator, created, hasGame, gameState,
                   playerColors, captured, lastAccepted, last, out, game, clients>>

SpecCannon == InitCannon /\ [][CallCannonCanCapture]_vars

----------------------------------------------------------------------------
\* The server late in a game of sockets 1 and 2: one colour is down to its
\* last piece, face-up on (0,1), next to a face-up piece of the other colour
\* on (0,0); on (0,2) there may be one more piece of that other colour, not
\* yet revealed.  Everything else has been captured.  turnCount, which no
\* decision of the handler reads, is counted from the position on.

\* The types the three pieces are taken from.
AttackerTypes == {"CHARIOT", "SOLDIER"}
DefenderTypes == {"HORSE", "GENERAL"}
HiddenTypes == {"SOLDIER"}

LastPieceBoards ==
    { [cell \in Cells |->
         IF cell = <<0, 0>> THEN attacker
         ELSE IF cell = <<0, 1>> THEN defender
         ELSE IF cell = <<0, 2>> THEN hidden
         ELSE NoPiece] :
        attacker \in {p \in Pieces : p.faceUp /\ p.type \in AttackerTypes},
        defender \in {p \in Pieces : p.faceUp /\ p.type \in DefenderTypes},
        hidden \in {p \in Pieces : ~p.faceUp /\ p.type \in HiddenTypes} \cup {NoPiece} }

InitEndgame ==
    /\ connected = [s \in Sockets |-> TRUE]
    /\ room = [s \in Sockets |-> IF s \in Players THEN Code ELSE NoRoom]
    /\ members = Players
    /\ creator = 1
    /\ created = TRUE
    /\ hasGame = TRUE
    /\ playerColors \in
         { [id \in Sockets \cup {NoSocket} |->
              IF id = 1 THEN c ELSE IF id = 2 THEN otherPlayerColor(c) ELSE "undefined"] :
           c \in Colors }
    /\ \E board \in LastPieceBoards, turn \in Players :
         /\ board[<<0, 0>>].color # board[<<0, 1>>].color
         /\ Truthy(board[<<0, 2>>])
            => /\ board[<<0, 2>>].color = board[<<0, 0>>].color
               /\ board[<<0, 2>>].type = board[<<0, 0>>].type
                  => pieceTypes[board[<<0, 0>>].type].count >= 2
         /\ gameState = [board |-> board, firstPieceRevealed |-> TRUE,
                         currentPlayer |-> playerColors[turn], turnCount |-> 0,
                         playerTurn |-> turn, player1 |-> 1, player2 |-> 2]
         /\ lastAccepted = otherPlayerId(gameState, turn)
    /\ captured = [c \in Colors |->
                     16 - Cardinality({cell \in Cells : gameState.board[cell].color = c})]
    /\ last = Handled("none", NoSocket)
    /\ out = <<>>
    /\ fn = NoCall
    /\ game = NoBanqi
    /\ clients = NewClients

SpecEndgame == InitEndgame /\ [][MoveLogged]_vars

----------------------------------------------------------------------------
\* generateBanqiBoard applied to outcomes of the shuffle's draws

\* The step of the shuffle, besides the first, whose draw is varied.
MidStep == 16

\* Math.random's outcomes: at the first step (i = 31) and at step MidStep
\* every index the step can draw, at the other steps either the index i
\* itself or index 0; and the draws of the boards the server model plays on.
DrawOutcomes ==
    { [i \in 1 .. Len(UnshuffledPieces) - 1 |->
          IF i = Len(UnshuffledPieces) - 1 THEN a
          ELSE IF i = MidStep THEN b
          ELSE IF zero THEN 0 ELSE i] :
        a \in 0 .. Len(UnshuffledPieces) - 1, b \in 0 .. MidStep, zero \in BOOLEAN }
    \cup ShuffleDraws

InitBoard ==
    /\ connected = [s \in Sockets |-> TRUE]
    /\ room = [s \in Sockets |-> NoRoom]
    /\ members = {}
    /\ creator = NoSocket
    /\ created = FALSE
    /\ hasGame = FALSE
    /\ gameState = NoGame
    /\ playerColors = [id \in Sockets \cup {NoSocket} |-> "undefined"]
    /\ captured = NoCaptures
    /\ lastAccepted = NoSocket
    /\ last = Handled("none", NoSocket)
    /\ out = <<>>
    /\ fn \in { [op |-> "generateBanqiBoard", draws |-> d, done |-> FALSE,
                 result |-> NoGame.board] : d \in DrawOutcomes }
    /\ game = NoBanqi
    /\ clients = NewClients

CallGenerateBanqiBoard ==
    /\ fn.op = "generateBanqiBoard"
    /\ ~fn.done
    /\ fn' = [fn EXCEPT !.done = TRUE, !.result = generateBanqiBoard(fn.draws)]
    /\ UNCHANGED <<connected, room, members, creator, created, hasGame, gameState,
                   playerColors, captured, lastAccepted, last, out, game, clients>>

SpecBoard == InitBoard /\ [][CallGenerateBanqiBoard]_vars

----------------------------------------------------------------------------
\* getValidMoves of the client applied to positions of a game of two in
\* progress, the selected piece on row 0

\* What a cell of the row holds in these positions.
RowPieces ==
    { NoPiece,
      [type |-> "CANNON", color |-> "red", rank |-> 2, faceUp |-> TRUE],
      [type |-> "GENERAL", color |-> "red", rank |-> 7, faceUp |-> TRUE],
      [type |-> "SOLDIER", color |-> "red", rank |-> 1, faceUp |-> FALSE],
      [type |-> "SOLDIER", color |-> "black", rank |-> 1, faceUp |-> TRUE],
      [type |-> "SOLDIER", color |-> "black", rank |-> 1, faceUp |-> FALSE],
      [type |-> "GENERAL", color |-> "black", rank |-> 7, faceUp |-> TRUE] }

\* Boards with the first LineLen cells of row 0 filled from RowPieces, no
\* piece more often than the piece set has it, and nothing elsewhere.
RowBoards ==
    { [cell \in Cells |->
          IF cell[1] = 0 /\ cell[2] \in 0 .. LineLen - 1 THEN line[cell[2]] ELSE NoPiece] :
      line \in { l \in [0 .. LineLen - 1 -> RowPieces] :
                   \A p \in RowPieces \ {NoPiece} :
                      Cardinality({c \in 0 .. LineLen - 1 :
                                      l[c].type = p.type /\ l[c].color = p.color})
                      <= pieceTypes[p.type].count } }

\* The game of sockets 1 and 2 on that board, socket 1 on turn.
RowGame(board, color) ==
    [board |-> board, firstPieceRevealed |-> TRUE, currentPlayer |-> color,
     turnCount |-> 0, playerTurn |-> 1, player1 |-> 1, player2 |-> 2]

RowColours(color) ==
    [id \in Sockets \cup {NoSocket} |->
        IF id = 1 THEN color ELSE IF id = 2 THEN otherPlayerColor(color) ELSE "undefined"]

InitOffers ==
    /\ connected = [s \in Sockets |-> TRUE]
    /\ room = [s \in Sockets |-> IF s \in Players THEN Code ELSE NoRoom]
    /\ members = Players
    /\ creator = 1
    /\ created = TRUE
    /\ hasGame = TRUE
    /\ \E board \in RowBoards, col \in 0 .. LineLen - 1 :
         /\ board[<<0, col>>].faceUp
         /\ gameState = RowGame(board, board[<<0, col>>].color)
         /\ playerColors = RowColours(board[<<0, col>>].color)
         /\ clients = [s \in Sockets |->
                         IF s \in Players
                         THEN [newClient EXCEPT
                                 !.board = Json(board),
                                 !.gamePhase = "playing",
                                 !.isMyTurn = (s = 1),
                                 !.currentTurn = board[<<0, col>>].color,
                                 !.playerColor = playerColors[s],
                                 !.opponentColor = otherPlayerColor(playerColors[s])]
                         ELSE newClient]
         /\ fn = [op |-> "getValidMoves", from |-> <<0, col>>, done |-> FALSE,
                  validMoves |-> {}, captureableMoves |-> {}]
    /\ captured = NoCaptures
    /\ lastAccepted = 2
    /\ last = Handled("none", NoSocket)
    /\ out = <<>>
    /\ game = NoBanqi

\* The client on turn selects its piece: setValidMoveSquares(getValidMoves(row, col))
CallGetValidMovesClient ==
    /\ fn.op = "getValidMoves"
    /\ ~fn.done
    /\ LET offer == getValidMovesClient(clients[gameState.playerTurn],
                                         fn.from[1], fn.from[2])
       IN  fn' = [fn EXCEPT !.done = TRUE,
                            !.validMoves = offer.validMoves,
                            !.captureableMoves = offer.captureableMoves]
    /\ UNCHANGED <<connected, room, members, creator, created, hasGame, gameState,
                   playerColors, captured, lastAccepted, last, out, game, clients>>

SpecOffers == InitOffers /\ [][CallGetValidMovesClient]_vars

----------------------------------------------------------------------------
\* A Banqi instance driven through makeMove and reset, from construction and
\* from late positions of a game: a face-up piece in the corner (0,0), a
\* face-up piece of the other colour next to it on (0,1), and possibly a
\* third piece, of either colour and face-up or not, on (1,0).

\* makeMove is not called once this many turns were played from the position
\* the instance started in.
MaxBanqiMoves == 5

\* turnCount of the late positions.
LateTurnCount == 60

\* Coordinates passed to makeMove: the corner's cells, and the column left
\* of the board.
CallRows == 0 .. 1
CallCols == -1 .. 1

CornerTypes == {"SOLDIER", "GENERAL"}
NeighbourTypes == {"CHARIOT", "SOLDIER"}
ThirdTypes == {"HORSE"}

LateBoards ==
    { [cell \in GridCells |->
         IF cell = <<0, 0>> THEN corner
         ELSE IF cell = <<0, 1>> THEN neighbour
         ELSE IF cell = <<1, 0>> THEN third
         ELSE NoPiece] :
        corner \in {p \in Pieces : p.faceUp /\ p.type \in CornerTypes},
        neighbour \in {p \in Pieces : p.faceUp /\ p.type \in NeighbourTypes},
        third \in {p \in Pieces : p.type \in ThirdTypes} \cup {NoPiece} }

LateGames ==
    { g \in [board : LateBoards, currentPlayer : Colors, gameActive : {TRUE},
             winner : {"null"}, turnCount : {LateTurnCount}] :
        /\ g.board[<<0, 0>>].color # g.board[<<0, 1>>].color
        /\ checkGameOver(g) = g }

FreshGames == { resetBanqi(draws) : draws \in ShuffleDraws }

\* Turns played since the instance was set up.
Played(g) ==
    IF g.turnCount >= LateTurnCount THEN g.turnCount - LateTurnCount ELSE g.turnCount

InitBanqi ==
    /\ connected = [s \in Sockets |-> TRUE]
    /\ room = [s \in Sockets |-> NoRoom]
    /\ members = {}
    /\ creator = NoSocket
    /\ created = FALSE
    /\ hasGame = FALSE
    /\ gameState = NoGame
    /\ playerColors = [id \in Sockets \cup {NoSocket} |-> "undefined"]
    /\ captured = NoCaptures
    /\ lastAccepted = NoSocket
    /\ last = Handled("none", NoSocket)
    /\ out = <<>>
    /\ fn = NoCall
    /\ game \in FreshGames \cup LateGames
    /\ clients = NewClients

MakeMove ==
    \E fromRow \in CallRows, fromCol \in CallCols, toRow \in CallRows, toCol \in CallCols :
        /\ Played(game) < MaxBanqiMoves
        /\ game' = makeMove(game, fromRow, fromCol, toRow, toCol).game
        /\ fn' = [op |-> "makeMove", from |-> <<fromRow, fromCol>>,
                  to |-> <<toRow, toCol>>,
                  result |-> makeMove(game, fromRow, fromCol, toRow, toCol).result]
        /\ UNCHANGED <<connected, room, members, creator, created, hasGame, gameState,
                       playerColors, captured, lastAccepted, last, out, clients>>

ResetGame ==
    \E draws \in ShuffleDraws :
        /\ game' = resetBanqi(draws)
        /\ fn' = [op |-> "reset"]
        /\ UNCHANGED <<connected, room, members, creator, created, hasGame, gameState,
                       playerColors, captured, lastAccepted, last, out, clients>>

NextBanqi == MakeMove \/ ResetGame

SpecBanqi == InitBanqi /\ [][NextBanqi]_vars

----------------------------------------------------------------------------
\* makeMove tried once from positions late in a game, the pieces on row 0

\* Positions on the boards of RowBoards that checkGameOver leaves active.
RowGames ==
    { g \in [board : {Json(board) : board \in RowBoards}, currentPlayer : Colors,
             gameActive : {TRUE}, winner : {"null"}, turnCount : {LateTurnCount}] :
        checkGameOver(g) = g }

\* Cells named in the calls: the row of the pieces and the row below it.
TriedCells == (0 .. 1) \X (0 .. LineLen - 1)

InitMoves ==
    /\ connected = [s \in Sockets |-> TRUE]
    /\ room = [s \in Sockets |-> NoRoom]
    /\ members = {}
    /\ creator = NoSocket
    /\ created = FALSE
    /\ hasGame = FALSE
    /\ gameState = NoGame
    /\ playerColors = [id \in Sockets \cup {NoSocket} |-> "undefined"]
    /\ captured = NoCaptures
    /\ lastAccepted = NoSocket
    /\ last = Handled("none", NoSocket)
    /\ out = <<>>
    /\ fn = NoCall
    /\ game \in RowGames
    /\ clients = NewClients

CallMakeMove ==
    \E from \in TriedCells, to \in TriedCells :
        /\ fn = NoCall
        /\ game' = makeMove(game, from[1], from[2], to[1], to[2]).game
        /\ fn' = [op |-> "makeMove", from |-> from, to |-> to,
                  result |-> makeMove(game, from[1], from[2], to[1], to[2]).result]
        /\ UNCHANGED <<connected, room, members, creator, created, hasGame, gameState,
                       playerColors, captured, lastAccepted, last, out, clients>>

SpecMoves == InitMoves /\ [][CallMakeMove]_vars

----------------------------------------------------------------------------
\* Vocabulary of the properties

Opposite(color) == IF color = "red" THEN "black" ELSE "red"

\* The last handler broadcast an accepted move.
AcceptedOut(o) == Len(o) = 3 /\ o[2].event = "move"

\* The last handler answered "Not your turn" to socket s.
NotYourTurnOut(o, s) ==
    /\ Len(o) = 2
    /\ o[2].event = "move"
    /\ o[2].to = {s}
    /\ o[2].valid = FALSE
    /\ o[2].message = "Not your turn"

\* Two different sockets are registered as player1 and player2.
TwoParticipants ==
    /\ gameState.player1 # NoSocket
    /\ gameState.player2 # NoSocket
    /\ gameState.player1 # gameState.player2

\* The pieces on the 4 x 8 grid: of one colour, and all of them.
OnBoard(board, color) == Cardinality({cell \in GridCells : board[cell].color = color})

Occupied(board) == Cardinality({cell \in GridCells : Truthy(board[cell])})

----------------------------------------------------------------------------
\* C1: a move or reveal from a socket of the room that is not
\* gameState.playerTurn is answered "Not your turn" and leaves the game
\* state (board, currentPlayer, playerTurn, turnCount) and the colour
\* bindings unchanged.
C1_NotYourTurnRejected ==
    [][\A s \in Sockets :
        (/\ last'.event = "move"
         /\ last'.socket = s
         /\ hasGame
         /\ room[s] = Code
         /\ gameState.playerTurn # s)
        => /\ NotYourTurnOut(out', s)
           /\ gameState' = gameState
           /\ playerColors' = playerColors]_vars

\* A socket was told "Not your turn" in a game whose first piece is revealed.
C1_Witness ==
    /\ hasGame
    /\ gameState.firstPieceRevealed
    /\ last.event = "move"
    /\ NotYourTurnOut(out, last.socket)

C3_BindingsFixedAfterFirstReveal ==
    [][(/\ last'.event = "move"
        /\ hasGame
        /\ gameState.firstPieceRevealed)
       => /\ playerColors' = playerColors
          /\ gameState'.firstPieceRevealed
          /\ AcceptedOut(out') => out'[2].firstPiece = "null"]_vars

\* A reveal was accepted after the first one.
C3_Witness ==
    /\ hasGame
    /\ last.event = "move"
    /\ AcceptedOut(out)
    /\ out[2].firstPiece = "null"
    /\ Cardinality({cell \in Cells : gameState.board[cell].faceUp}) >= 2

\* The step is an accepted reveal: a broadcast move that relocated nothing.
AcceptedReveal ==
    /\ last'.event = "move"
    /\ hasGame
    /\ AcceptedOut(out')
    /\ \A cell \in Cells : Truthy(gameState'.board[cell]) = Truthy(gameState.board[cell])

\* C4: an accepted reveal other than the first turns exactly the chosen
\* piece face-up, changes currentPlayer to the opposite of its value before,
\* and gives the turn to the other participant.
C4_LaterRevealTogglesOnce ==
    [][(/\ AcceptedReveal
        /\ gameState.firstPieceRevealed
        /\ TwoParticipants)
       => /\ \E cell \in Cells :
               /\ Truthy(gameState.board[cell])
               /\ ~gameState.board[cell].faceUp
               /\ gameState'.board =
                     [gameState.board EXCEPT ![cell].faceUp = TRUE]
          /\ gameState'.currentPlayer = Opposite(gameState.currentPlayer)
          /\ gameState'.playerTurn # last'.socket
          /\ gameState'.playerTurn \in {gameState.player1, gameState.player2}]_vars

\* C5: turnCount grows by exactly one with every accepted reveal or move and
\* is unchanged by every rejected one.
C5_TurnCountStepsByOne ==
    [][(last'.event = "move" /\ hasGame)
       => gameState'.turnCount =
            gameState.turnCount + (IF AcceptedOut(out') THEN 1 ELSE 0)]_vars

\* C6: while the same two participants play one game (no reset, no join in
\* between), no participant has two accepted actions in a row.
C6_AcceptedActionsAlternate ==
    [][\A s \in Sockets :
        (/\ last'.event = "move"
         /\ last'.socket = s
         /\ hasGame
         /\ TwoParticipants
         /\ AcceptedOut(out'))
        => lastAccepted # s]_vars

\* Two accepted actions have followed one another in a game of two.
C6_Witness ==
    /\ hasGame
    /\ TwoParticipants
    /\ last.event = "move"
    /\ AcceptedOut(out)
    /\ gameState.turnCount >= 4
    /\ lastAccepted # NoSocket

\* C7: for each colour the pieces on the grid plus the captured ones are 16,
\* occupied cells plus captured pieces are 32, and a move or reveal removes
\* at most one piece from the grid, and only with a capture.
C7_PieceConservation ==
    /\ [](hasGame =>
            /\ \A c \in Colors : OnBoard(gameState.board, c) + captured[c] = 16
            /\ Occupied(gameState.board) + captured["red"] + captured["black"] = 32)
    /\ [][(/\ last'.event = "move"
            /\ hasGame
            /\ gameState'.board # gameState.board)
           => /\ Occupied(gameState'.board) >= Occupied(gameState.board) - 1
              /\ Occupied(gameState'.board) < Occupied(gameState.board)
                 => AcceptedOut(out') /\ Truthy(out'[2].capturedPiece)]_vars

\* C8: no handler other than reset turns a face-up piece face-down: while
\* the board is not replaced, every face-down piece was face-down on the
\* same cell before the step.
C8_FaceUpMonotone ==
    [][(/\ hasGame
        /\ hasGame'
        /\ last'.event # "reset"
        /\ gameState'.board # gameState.board)
       => \A cell \in Cells :
            (Truthy(gameState'.board[cell]) /\ ~gameState'.board[cell].faceUp)
            => gameState'.board[cell] = gameState.board[cell]]_vars

\* A face-up piece has moved to an empty cell and others are still face-down.
C8_Witness ==
    /\ hasGame
    /\ last.event = "move"
    /\ AcceptedOut(out)
    /\ out[2].firstPiece = "null"
    /\ ~Truthy(out[2].capturedPiece)
    /\ \E c \in 0 .. COLS - 1 : ~Truthy(gameState.board[<<0, c>>])
    /\ \E cell \in Cells : Truthy(gameState.board[cell]) /\ ~gameState.board[cell].faceUp

\* The ranks the rule is stated with.
RuleRank ==
    [SOLDIER |-> 1, CANNON |-> 2, HORSE |-> 3, CHARIOT |-> 4, ELEPHANT |-> 5,
     ADVISOR |-> 6, GENERAL |-> 7]

\* C9: canCapture is false for pieces of one colour, true for SOLDIER on
\* GENERAL, false for GENERAL on SOLDIER, and otherwise true exactly when the
\* attacker's rank is at least the defender's.
C9_CanCaptureRule ==
    (fn.op = "canCapture" /\ fn.done)
    => /\ fn.attacker.rank = RuleRank[fn.attacker.type]
       /\ fn.defender.rank = RuleRank[fn.defender.type]
       /\ fn.result =
            (IF fn.attacker.color = fn.defender.color THEN FALSE
             ELSE IF fn.attacker.type = "SOLDIER" /\ fn.defender.type = "GENERAL"
                THEN TRUE
             ELSE IF fn.attacker.type = "GENERAL" /\ fn.defender.type = "SOLDIER"
                THEN FALSE
             ELSE RuleRank[fn.attacker.type] >= RuleRank[fn.defender.type])

\* canCapture has answered for a SOLDIER attacking the other colour's GENERAL.
C9_Witness ==
    /\ fn.op = "canCapture"
    /\ fn.done
    /\ fn.attacker.type = "SOLDIER"
    /\ fn.defender.type = "GENERAL"
    /\ fn.attacker.color # fn.defender.color
    /\ fn.result

\* The cells strictly between two cells of one row or one column.
Between(from, to) ==
    { cell \in GridCells :
        \/ /\ from[1] = to[1]
           /\ cell[1] = from[1]
           /\ \/ from[2] < cell[2] /\ cell[2] < to[2]
              \/ to[2] < cell[2] /\ cell[2] < from[2]
        \/ /\ from[2] = to[2]
           /\ cell[2] = from[2]
           /\ \/ from[1] < cell[1] /\ cell[1] < to[1]
              \/ to[1] < cell[1] /\ cell[1] < from[1] }

\* C10: for two distinct cells, cannonCanCapture is true exactly when they
\* share a row or a column and exactly one cell strictly between them is
\* occupied.
C10_CannonScreenExactlyOne ==
    (fn.op = "cannonCanCapture" /\ fn.done)
    => fn.result =
         (/\ fn.from[1] = fn.to[1] \/ fn.from[2] = fn.to[2]
          /\ Cardinality({cell \in Between(fn.from, fn.to) :
                            Truthy(fn.board[cell])}) = 1)

\* cannonCanCapture has refused a pair of cells with two screens between.
C10_Witness ==
    /\ fn.op = "cannonCanCapture"
    /\ fn.done
    /\ ~fn.result
    /\ Cardinality({cell \in Between(fn.from, fn.to) : Truthy(fn.board[cell])}) = 2

----------------------------------------------------------------------------
\* Rules of movement, as seen on the recorded requests

\* The step handles a request with from # to of the socket whose turn it is.
OnTurnMove ==
    /\ last'.event = "move"
    /\ hasGame
    /\ room[last'.socket] = Code
    /\ gameState.playerTurn = last'.socket
    /\ last'.from # last'.to

\* Manhattan distance 1
Adjacent(from, to) ==
    (from[1] - to[1]) * (from[1] - to[1]) + (from[2] - to[2]) * (from[2] - to[2]) = 1

\* The board after the piece of `from` went to `to`.
Arrived(board, from, to) == [board EXCEPT ![to] = board[from], ![from] = NoPiece]

\* C11: an on-turn move of a face-up CANNON of the mover's colour is accepted
\* exactly when the target is empty and adjacent, or the target is a face-up
\* piece of the other colour with exactly one piece strictly between on a
\* common line, whatever its rank; an accepted move puts the cannon on the
\* target, empties the source and reports the piece that stood there.
C11_CannonMoveRule ==
    [][(/\ OnTurnMove
        /\ gameState.board[last'.from].type = "CANNON"
        /\ gameState.board[last'.from].faceUp
        /\ gameState.board[last'.from].color = playerColors[last'.socket])
       => LET source == gameState.board[last'.from]
              target == gameState.board[last'.to]
              screens == Cardinality({cell \in Between(last'.from, last'.to) :
                                        Truthy(gameState.board[cell])})
              legal == \/ ~Truthy(target) /\ Adjacent(last'.from, last'.to)
                       \/ /\ Truthy(target)
                          /\ target.faceUp
                          /\ target.color = Opposite(source.color)
                          /\ screens = 1
          IN  /\ AcceptedOut(out') <=> legal
              /\ AcceptedOut(out')
                 => /\ gameState'.board = Arrived(gameState.board, last'.from, last'.to)
                    /\ out'[2].capturedPiece = target]_vars

\* A cannon has jumped over (0,1) from (0,0) and captured the piece on (0,2).
C11_Witness ==
    /\ hasGame
    /\ TwoParticipants
    /\ last.event = "move"
    /\ AcceptedOut(out)
    /\ last.from = <<0, 0>>
    /\ last.to = <<0, 2>>
    /\ Truthy(out[2].capturedPiece)
    /\ gameState.board[<<0, 2>>].type = "CANNON"
    /\ Truthy(gameState.board[<<0, 1>>])
    /\ ~Truthy(gameState.board[<<0, 0>>])

\* C12: an on-turn move whose source is not a cannon is accepted exactly when
\* the source piece exists, is face-up and has the mover's bound colour, the
\* target is orthogonally adjacent, and the target is empty or a face-up
\* piece of the other colour that canCapture lets the source take.
C12_PlainMoveRule ==
    [][(/\ OnTurnMove
        /\ gameState.board[last'.from].type # "CANNON")
       => LET source == gameState.board[last'.from]
              target == gameState.board[last'.to]
              legal == /\ Truthy(source)
                       /\ source.faceUp
                       /\ source.color = playerColors[last'.socket]
                       /\ Adjacent(last'.from, last'.to)
                       /\ \/ ~Truthy(target)
                          \/ /\ target.faceUp
                             /\ target.color = Opposite(source.color)
                             /\ canCapture(source, target)
          IN  AcceptedOut(out') <=> legal]_vars

\* A piece that is not a cannon has taken the piece on an adjacent cell.
C12_Witness ==
    /\ hasGame
    /\ TwoParticipants
    /\ last.event = "move"
    /\ AcceptedOut(out)
    /\ last.from # last.to
    /\ Truthy(out[2].capturedPiece)
    /\ Truthy(gameState.board[last.to])
    /\ gameState.board[last.to].type # "CANNON"

\* C13: no accepted move with from # to, of any piece and from any socket,
\* has a face-down piece as its source or as its target, and every 'move'
\* request leaves each face-down piece on its cell, face-down or revealed.
C13_FaceDownNeverMoved ==
    [][(/\ last'.event = "move"
        /\ hasGame
        /\ room[last'.socket] = Code)
       => /\ (AcceptedOut(out') /\ last'.from # last'.to)
             => /\ Truthy(gameState.board[last'.from])
                /\ gameState.board[last'.from].faceUp
                /\ \/ ~Truthy(gameState.board[last'.to])
                   \/ gameState.board[last'.to].faceUp
          /\ gameState'.board # gameState.board
             => \A cell \in Cells :
                  (Truthy(gameState.board[cell]) /\ ~gameState.board[cell].faceUp)
                  => /\ gameState'.board[cell].type = gameState.board[cell].type
                     /\ gameState'.board[cell].color = gameState.board[cell].color
                     /\ gameState'.board[cell].faceUp
                        => (last'.from = cell /\ last'.to = cell)]_vars

\* A move with from # to was accepted next to a piece that is still face-down.
C13_Witness ==
    /\ hasGame
    /\ last.event = "move"
    /\ AcceptedOut(out)
    /\ last.from # last.to
    /\ \E cell \in GridCells :
         /\ Adjacent(cell, last.to) \/ Adjacent(cell, last.from)
         /\ Truthy(gameState.board[cell])
         /\ ~gameState.board[cell].faceUp

\* C14: a reveal request (from = to) is accepted only if the addressed cell
\* holds a face-down piece; a reveal of an empty cell or of a face-up piece
\* is not accepted and changes neither the game state nor the bindings.
C14_RevealNeedsFaceDownPiece ==
    [][(/\ last'.event = "move"
        /\ hasGame
        /\ room[last'.socket] = Code
        /\ last'.from = last'.to)
       => LET piece == gameState.board[last'.to]
          IN  /\ AcceptedOut(out') => (Truthy(piece) /\ ~piece.faceUp)
              /\ ~(Truthy(piece) /\ ~piece.faceUp)
                 => /\ ~AcceptedOut(out')
                    /\ gameState' = gameState
                    /\ playerColors' = playerColors]_vars

\* The socket whose turn it is asked to reveal a piece that is face-up already.
C14_Witness ==
    /\ hasGame
    /\ TwoParticipants
    /\ last.event = "move"
    /\ last.from = last.to
    /\ gameState.playerTurn = last.socket
    /\ ~AcceptedOut(out)
    /\ Truthy(gameState.board[last.to])
    /\ gameState.board[last.to].faceUp

\* C15: a reveal or move of the socket whose turn it is that the server does
\* not accept leaves the game state (board, currentPlayer, playerTurn,
\* turnCount) and the colour bindings exactly as they were.
C15_RuleRejectionKeepsState ==
    [][(/\ last'.event = "move"
        /\ hasGame
        /\ room[last'.socket] = Code
        /\ gameState.playerTurn = last'.socket
        /\ ~AcceptedOut(out'))
       => /\ gameState' = gameState
          /\ playerColors' = playerColors
          /\ captured' = captured]_vars

\* The socket whose turn it is tried a capture that canCapture refuses: the
\* source is its own face-up piece, the adjacent target a face-up piece of
\* the other colour.
C15_Witness ==
    /\ hasGame
    /\ TwoParticipants
    /\ last.event = "move"
    /\ gameState.playerTurn = last.socket
    /\ ~AcceptedOut(out)
    /\ Adjacent(last.from, last.to)
    /\ Truthy(gameState.board[last.from])
    /\ gameState.board[last.from].faceUp
    /\ gameState.board[last.from].color = playerColors[last.socket]
    /\ gameState.board[last.from].type # "CANNON"
    /\ Truthy(gameState.board[last.to])
    /\ gameState.board[last.to].faceUp
    /\ gameState.board[last.to].color # gameState.board[last.from].color

\* C16: a reveal or move that is not accepted makes the server send nothing
\* to anyone but the requester.
C16_RejectionOnlyToRequester ==
    [][(/\ last'.event = "move"
        /\ hasGame
        /\ room[last'.socket] = Code
        /\ TwoParticipants
        /\ members = {gameState.player1, gameState.player2}
        /\ ~AcceptedOut(out'))
       => \A i \in 1 .. Len(out') : out'[i].to \subseteq {last'.socket}]_vars

\* C17: every reveal or move request of a socket of the room is answered:
\* it is accepted and broadcast, or a rejection is sent to the requester.
C17_EveryRequestAnswered ==
    [][(/\ last'.event = "move"
        /\ hasGame
        /\ room[last'.socket] = Code
        /\ TwoParticipants
        /\ members = {gameState.player1, gameState.player2})
       => \/ AcceptedOut(out')
          \/ \E i \in 1 .. Len(out') :
                /\ out'[i].event = "move"
                /\ out'[i].to = {last'.socket}
                /\ ~out'[i].valid]_vars

\* C18: after an accepted reveal or move the last message, sent to both
\* participants, carries the server's board, currentPlayer and playerTurn as
\* they are after the action, and a client that has received the handler's
\* messages holds that board and that turn.
C18_BroadcastMatchesServer ==
    [][(/\ last'.event = "move"
        /\ hasGame
        /\ AcceptedOut(out')
        /\ TwoParticipants
        /\ members = {gameState.player1, gameState.player2})
       => /\ out'[3].event = "gameStateUpdate"
          /\ out'[3].board = Json(gameState'.board)
          /\ out'[3].currentPlayer = gameState'.currentPlayer
          /\ out'[3].playerTurn = gameState'.playerTurn
          /\ \A s \in {gameState.player1, gameState.player2} :
                LET client == Delivered(newClient, s, out')
                IN  /\ s \in out'[3].to
                    /\ client.board = Json(gameState'.board)
                    /\ client.currentTurn = gameState'.currentPlayer
                    /\ client.isMyTurn = (gameState'.playerTurn = s)]_vars

\* A capture was broadcast to both participants: the board sent after it
\* differs from the board sent before validation.
C18_Witness ==
    /\ hasGame
    /\ TwoParticipants
    /\ members = {gameState.player1, gameState.player2}
    /\ last.event = "move"
    /\ AcceptedOut(out)
    /\ Truthy(out[2].capturedPiece)
    /\ out[3].to = members
    /\ out[3].board # out[1].board
    /\ Delivered(newClient, gameState.playerTurn, out).isMyTurn

\* The step handles a reveal request for a face-down piece, sent by one of
\* the two participants while the game awaits its first reveal.
LegalFirstReveal ==
    /\ last'.event = "move"
    /\ hasGame
    /\ ~gameState.firstPieceRevealed
    /\ TwoParticipants
    /\ members = {gameState.player1, gameState.player2}
    /\ last'.socket \in members
    /\ room[last'.socket] = Code
    /\ last'.from = last'.to
    /\ Truthy(gameState.board[last'.to])
    /\ ~gameState.board[last'.to].faceUp

\* C19 as stated: while the game awaits its first reveal, a legal reveal
\* from either participant is accepted.
C19_AnyParticipantRevealsFirst ==
    [][LegalFirstReveal => AcceptedOut(out')]_vars

\* C19 as the server behaves: while the game awaits its first reveal, a legal
\* reveal is accepted from the participant that holds gameState.playerTurn,
\* one of the two, and the other participant's is answered "Not your turn".
C19_TurnHolderRevealsFirst ==
    [][LegalFirstReveal
       => /\ gameState.playerTurn \in {gameState.player1, gameState.player2}
          /\ AcceptedOut(out') <=> (gameState.playerTurn = last'.socket)
          /\ gameState.playerTurn # last'.socket
             => /\ NotYourTurnOut(out', last'.socket)
                /\ gameState' = gameState]_vars

\* The participant that does not hold the turn asked for the first reveal of
\* a face-down piece and was told "Not your turn".
C19_Witness ==
    /\ hasGame
    /\ TwoParticipants
    /\ members = {gameState.player1, gameState.player2}
    /\ ~gameState.firstPieceRevealed
    /\ last.event = "move"
    /\ last.socket \in members
    /\ last.from = last.to
    /\ Truthy(gameState.board[last.to])
    /\ ~gameState.board[last.to].faceUp
    /\ NotYourTurnOut(out, last.socket)

\* C20: once an accepted capture has removed the last piece of a colour from
\* the board the game is over: the server accepts no further reveal or move.
C20_LastCaptureEndsGame ==
    [][(/\ last'.event = "move"
        /\ hasGame
        /\ \E c \in Colors :
              /\ captured[c] = 16
              /\ OnBoard(gameState.board, c) = 0)
       => ~AcceptedOut(out')]_vars

----------------------------------------------------------------------------
\* The end of a game, as seen on a Banqi instance

\* The rule of movement: the piece on `from`, face-up, may go to `to`.
LegalDestination(board, from, to) ==
    LET source == board[from]
        target == board[to]
    IN  /\ Truthy(source)
        /\ source.faceUp
        /\ IF source.type = "CANNON"
           THEN \/ ~Truthy(target) /\ Adjacent(from, to)
                \/ /\ Truthy(target)
                   /\ target.faceUp
                   /\ target.color = Opposite(source.color)
                   /\ from[1] = to[1] \/ from[2] = to[2]
                   /\ Cardinality({cell \in Between(from, to) : Truthy(board[cell])}) = 1
           ELSE /\ Adjacent(from, to)
                /\ \/ ~Truthy(target)
                   \/ /\ target.faceUp
                      /\ target.color = Opposite(source.color)
                      /\ IF source.type = "SOLDIER" /\ target.type = "GENERAL" THEN TRUE
                         ELSE IF source.type = "GENERAL" /\ target.type = "SOLDIER"
                            THEN FALSE
                         ELSE RuleRank[source.type] >= RuleRank[target.type]

FaceDownLeft(board) == \E cell \in GridCells : Truthy(board[cell]) /\ ~board[cell].faceUp

\* A reveal is available, or a face-up piece of the colour has a destination.
HasAnyLegalAction(board, color) ==
    \/ FaceDownLeft(board)
    \/ \E from \in GridCells, to \in GridCells :
          /\ board[from].color = color
          /\ from # to
          /\ LegalDestination(board, from, to)

\* The step is a call of makeMove that ends the game.
GameEnds ==
    /\ fn'.op = "makeMove"
    /\ game.gameActive
    /\ ~game'.gameActive

\* C21: when a game ends, the loser has no piece of its colour left on the
\* board, face-up or face-down, unless it is the colour to move and has no
\* legal action; no game ends while the loser has a face-down piece.
C21_LoserHasNoPieceLeft ==
    [][GameEnds
       => LET loser == Opposite(game'.winner)
          IN  \/ OnBoard(game'.board, loser) = 0
              \/ /\ loser = game'.currentPlayer
                 /\ ~HasAnyLegalAction(game'.board, loser)]_vars

\* C22: after an accepted reveal or move that leaves the colour to move
\* without a legal action, the game is over and the other colour has won;
\* a game that ends while the loser still has a face-up piece, that is for
\* lack of moves, leaves no face-down piece on the board.
C22_NoLegalActionEndsGame ==
    [][(/\ fn'.op = "makeMove"
        /\ fn'.result
        /\ game.gameActive)
       => /\ ~HasAnyLegalAction(game'.board, game'.currentPlayer)
             => /\ ~game'.gameActive
                /\ game'.winner = Opposite(game'.currentPlayer)
          /\ (~game'.gameActive /\ FaceUpCount(game'.board, Opposite(game'.winner)) > 0)
             => ~FaceDownLeft(game'.board)]_vars

\* C23: once a winner is recorded, every call of makeMove returns false and
\* leaves board, currentPlayer, winner, gameActive and turnCount as they are;
\* only reset starts a game again.
C23_OverIsTerminal ==
    [][(/\ fn'.op = "makeMove"
        /\ game.winner # "null")
       => /\ ~fn'.result
          /\ game' = game]_vars

\* After the game has ended with a winner, makeMove was asked to reveal a
\* piece that is still face-down and refused.
C23_Witness ==
    /\ fn.op = "makeMove"
    /\ ~fn.result
    /\ game.winner \in Colors
    /\ ~game.gameActive
    /\ fn.from = fn.to
    /\ fn.to \in GridCells
    /\ Truthy(game.board[fn.to])
    /\ ~game.board[fn.to].faceUp

----------------------------------------------------------------------------
\* Reset, board generation, malformed requests, departures, full rooms

\* Every cell of the grid holds a face-down piece and nothing lies off it.
AllFaceDown(board) ==
    /\ \A cell \in GridCells : Truthy(board[cell]) /\ ~board[cell].faceUp
    /\ \A cell \in Cells \ GridCells : ~Truthy(board[cell])

\* C24: a reset from a socket of the room, whatever the game's state, leaves
\* a board of 32 face-down pieces, firstPieceRevealed false, currentPlayer
\* null, turnCount 0 and no colour bound to player1 or player2, and changes
\* neither player1 and player2 nor the members of the room.
C24_ResetReturnsToStart ==
    [][(/\ last'.event = "reset"
        /\ hasGame
        /\ room[last'.socket] = Code)
       => /\ AllFaceDown(gameState'.board)
          /\ Occupied(gameState'.board) = 32
          /\ ~gameState'.firstPieceRevealed
          /\ gameState'.currentPlayer = "null"
          /\ gameState'.turnCount = 0
          /\ \A p \in {gameState.player1, gameState.player2} \ {NoSocket} :
                playerColors'[p] = "undefined"
          /\ gameState'.player1 = gameState.player1
          /\ gameState'.player2 = gameState.player2
          /\ members' = members
          /\ hasGame']_vars

\* The game of two participants, both still in the room, has just been reset.
C24_Witness ==
    /\ hasGame
    /\ last.event = "reset"
    /\ TwoParticipants
    /\ members = {gameState.player1, gameState.player2}
    /\ AllFaceDown(gameState.board)
    /\ gameState.turnCount = 0
    /\ gameState.playerTurn \in members
    /\ \A p \in members : playerColors[p] = "undefined"

\* The pieces of one colour, by type.
PieceCount ==
    [GENERAL |-> 1, ADVISOR |-> 2, ELEPHANT |-> 2, CHARIOT |-> 2, HORSE |-> 2,
     CANNON |-> 2, SOLDIER |-> 5]

\* C25: a board made by generateBanqiBoard has a face-down piece on each of
\* the 32 cells of the grid, for each colour 1 GENERAL, 2 ADVISOR, 2 ELEPHANT,
\* 2 CHARIOT, 2 HORSE, 2 CANNON and 5 SOLDIER, and on every piece the rank of
\* its type: 7, 6, 5, 4, 3, 2, 1.
C25_BoardHasThePieceSet ==
    (fn.op = "generateBanqiBoard" /\ fn.done)
    => /\ AllFaceDown(fn.result)
       /\ Occupied(fn.result) = 32
       /\ \A c \in Colors, type \in DOMAIN PieceCount :
             Cardinality({cell \in GridCells :
                            fn.result[cell].color = c /\ fn.result[cell].type = type})
                = PieceCount[type]
       /\ \A cell \in GridCells :
             /\ fn.result[cell].type \in DOMAIN RuleRank
             /\ fn.result[cell].rank = RuleRank[fn.result[cell].type]

\* A board was generated whose last cell holds a piece the shuffle brought
\* there from the red half of the list.
C25_Witness ==
    /\ fn.op = "generateBanqiBoard"
    /\ fn.done
    /\ fn.result[<<3, 7>>].color = "red"
    /\ fn.draws[MidStep] # MidStep

\* C26: in a game of two participants, a reveal or move request with a source
\* or a target outside rows 0..3 and columns 0..7 is not accepted and changes
\* neither the game state nor the colour bindings.
C26_OutOfBoundsRejected ==
    [][(/\ last'.event = "move"
        /\ hasGame
        /\ room[last'.socket] = Code
        /\ TwoParticipants
        /\ members = {gameState.player1, gameState.player2}
        /\ last'.from \notin GridCells \/ last'.to \notin GridCells)
       => /\ ~AcceptedOut(out')
          /\ gameState' = gameState
          /\ playerColors' = playerColors]_vars

\* A participant of the game has disconnected.
ParticipantGone ==
    \E p \in {gameState.player1, gameState.player2} \ {NoSocket} : ~connected[p]

\* C27: once a participant of a game has disconnected no reveal or move is
\* accepted for that game; the disconnect is announced to the sockets left
\* in the room; and when the last socket leaves the room no game state is
\* kept for it.
C27_DisconnectStopsGame ==
    [][/\ (last'.event = "move" /\ hasGame /\ ParticipantGone) => ~AcceptedOut(out')
       /\ (last'.event = "disconnect" /\ room[last'.socket] = Code)
          => /\ \E i \in 1 .. Len(out') :
                   out'[i].event = "opponentLeft" /\ out'[i].to = members'
             /\ members' = {} => ~hasGame']_vars

\* C28: the room never has more than two sockets in it, and a joinGame that
\* finds two there is answered with an error to the requester alone and
\* changes neither the members nor player1, player2, playerTurn, the board
\* or anything else of the game state.
C28_AtMostTwoParticipants ==
    /\ [](Cardinality(members) <= 2)
    /\ [][(last'.event = "joinGame" /\ Cardinality(members) >= 2)
          => /\ out' = <<Emit("error", {last'.socket})>>
             /\ members' = members
             /\ gameState' = gameState
             /\ hasGame' = hasGame
             /\ playerColors' = playerColors]_vars

\* A third socket asked to join the game of two and was sent an error.
C28_Witness ==
    /\ last.event = "joinGame"
    /\ hasGame
    /\ TwoParticipants
    /\ members = {gameState.player1, gameState.player2}
    /\ last.socket \notin members
    /\ out = <<Emit("error", {last.socket})>>

----------------------------------------------------------------------------
\* What a request declares and what the server decides

\* The request handled by the step, with the declared colour replaced.
Redeclared(color) ==
    [fromRow |-> last'.from[1], fromCol |-> last'.from[2],
     toRow |-> last'.to[1], toCol |-> last'.to[2], color |-> color]

\* C29: what the server does with a request (accept or reject, the state it
\* leaves, what it sends) is what it would do with the same coordinates from
\* the same socket under any other declared colour; and whatever colour is
\* declared, an accepted request comes from the socket holding the turn and
\* an accepted move carries a piece of the colour bound to that socket.
C29_DeclaredColourIgnored ==
    [][(/\ last'.event = "move"
        /\ hasGame
        /\ room[last'.socket] = Code)
       => /\ \A color \in Colors : moveRequest(last'.socket, Redeclared(color))
          /\ AcceptedOut(out')
             => /\ gameState.playerTurn = last'.socket
                /\ last'.from # last'.to
                   => gameState.board[last'.from].color = playerColors[last'.socket]]_vars

\* The socket holding the turn declared the other colour and asked to move a
\* face-up piece of that colour to the cell next to it; it was refused.
C29_Witness ==
    /\ hasGame
    /\ TwoParticipants
    /\ last.event = "move"
    /\ gameState.playerTurn = last.socket
    /\ playerColors[last.socket] \in Colors
    /\ last.color = Opposite(playerColors[last.socket])
    /\ Adjacent(last.from, last.to)
    /\ gameState.board[last.from].faceUp
    /\ gameState.board[last.from].color = last.color
    /\ ~AcceptedOut(out)

----------------------------------------------------------------------------
\* The effect of an accepted move on the board

\* The cells of the grid whose content the step changes.
ChangedCells == {cell \in GridCells : gameState'.board[cell] # gameState.board[cell]}

\* C30: in a game of two, an accepted move changes exactly two cells of the
\* board, its source and its target: the target then holds the source piece
\* as it was, face-up, the source is empty and whatever stood on the target
\* is gone; and no request empties a cell other than the source of an
\* accepted move.
C30_MoveChangesTwoCells ==
    [][(/\ last'.event = "move"
        /\ hasGame
        /\ room[last'.socket] = Code
        /\ TwoParticipants
        /\ members = {gameState.player1, gameState.player2})
       => /\ (AcceptedOut(out') /\ last'.from # last'.to)
             => /\ ChangedCells = {last'.from, last'.to}
                /\ gameState'.board[last'.to] = gameState.board[last'.from]
                /\ gameState'.board[last'.to].faceUp
                /\ ~Truthy(gameState'.board[last'.from])
                /\ Occupied(gameState'.board) =
                      Occupied(gameState.board)
                      - (IF Truthy(gameState.board[last'.to]) THEN 1 ELSE 0)
          /\ \A cell \in GridCells :
                (Truthy(gameState.board[cell]) /\ ~Truthy(gameState'.board[cell]))
                => /\ AcceptedOut(out')
                   /\ last'.from = cell
                   /\ last'.to # cell]_vars

----------------------------------------------------------------------------
\* The colour to move, over the life of a game

\* C31: gameState.currentPlayer is null exactly while the game awaits its
\* first reveal: null from createGame or reset until the first accepted
\* reveal, and red or black in every state from then until the next reset.
C31_CurrentColourSetWhileInProgress ==
    hasGame => IF gameState.firstPieceRevealed
               THEN gameState.currentPlayer \in Colors
               ELSE gameState.currentPlayer = "null"

\* Both registered participants are connected and are the room's members.
BothPresent ==
    /\ TwoParticipants
    /\ members = {gameState.player1, gameState.player2}

\* C32: once the first piece is revealed and while both participants are
\* present, gameState.currentPlayer, and the currentPlayer of the
\* gameStateUpdate broadcast last, is the colour bound to the socket that
\* holds the turn: red or black, and playerColors.get(playerTurn).
C32_CurrentColourIsTurnHoldersColour ==
    (hasGame /\ gameState.firstPieceRevealed /\ BothPresent)
    => /\ gameState.currentPlayer \in Colors
       /\ gameState.currentPlayer = playerColors[gameState.playerTurn]
       /\ (out # <<>> /\ out[Len(out)].event = "gameStateUpdate")
          => /\ out[Len(out)].currentPlayer = gameState.currentPlayer
             /\ out[Len(out)].playerTurn = gameState.playerTurn

----------------------------------------------------------------------------
\* The shape of the board

\* C33: in a game of two, the server's board stays a grid of 4 rows and 8
\* columns: every piece it holds sits on a cell with row 0..3 and column
\* 0..7, one value per cell, and no accepted move puts a piece anywhere else.
C33_BoardStaysTheGrid ==
    (hasGame /\ BothPresent)
    => /\ DOMAIN gameState.board = Cells
       /\ \A cell \in Cells \ GridCells : ~Truthy(gameState.board[cell])

----------------------------------------------------------------------------
\* The colours of the two participants

\* C34: while a game is in progress (first piece revealed) and two sockets
\* are registered as player1 and player2 and present in the room, each of
\* them has a colour in playerColors and the two colours are opposite,
\* whatever disconnects and joins came before.
C34_ParticipantsHoldOppositeColours ==
    (hasGame /\ gameState.firstPieceRevealed /\ BothPresent)
    => /\ playerColors[gameState.player1] \in Colors
       /\ playerColors[gameState.player2] \in Colors
       /\ playerColors[gameState.player2] = Opposite(playerColors[gameState.player1])

----------------------------------------------------------------------------
\* A socket that was refused

\* Socket s asked to join the room when it was full: it is connected, it is
\* not in the room, and its handlers' variable `room` names the room.
Refused(s) == connected[s] /\ s \notin members /\ room[s] = Code

\* C35: a 'reset', 'move' or 'disconnect' of a socket whose joinGame was
\* refused because the room was full changes neither the game state of the
\* room nor the colour bindings, and sends nothing to the room's two
\* participants.
C35_RefusedSocketIsNoParticipant ==
    [][(/\ hasGame
        /\ BothPresent
        /\ last'.event \in {"reset", "move", "disconnect"}
        /\ Refused(last'.socket))
       => /\ gameState' = gameState
          /\ hasGame'
          /\ playerColors' = playerColors
          /\ \A i \in 1 .. Len(out') : out'[i].to \cap members = {}]_vars

----------------------------------------------------------------------------
\* A room with its creator alone

\* C36: while gameState.player2 is unset, gameState.playerTurn is unset, and
\* no 'move' request is accepted or changes the board.
C36_NothingAcceptedBeforeSecondJoins ==
    /\ [](hasGame /\ gameState.player2 = NoSocket
           => gameState.playerTurn = NoSocket)
    /\ [][(hasGame /\ gameState.player2 = NoSocket /\ last'.event = "move")
          => /\ ~AcceptedOut(out')
             /\ gameState'.board = gameState.board]_vars

----------------------------------------------------------------------------
\* The colour a client believes it plays

\* playerColors.get(s) as a client holds it: the colour, or null for no entry.
BoundColour(s) == IF playerColors[s] \in Colors THEN playerColors[s] ELSE "null"

\* C37: once every message the server sent has arrived, the playerColor of
\* the client of each connected participant of a game of two is the colour
\* the server has bound to that socket, and null when it has bound none.
C37_ClientColourIsServerBinding ==
    (out = <<>> /\ hasGame /\ TwoParticipants)
    => \A s \in {gameState.player1, gameState.player2} :
          (connected[s] /\ s \in members)
          => clients[s].playerColor = BoundColour(s)

----------------------------------------------------------------------------
\* What the client offers and what the server accepts

\* The destinations on the grid for which the 'move' handler accepts a move
\* of the piece on `from`, requested by the socket on turn.
ServerAccepts(from) ==
    { to \in GridCells \ {from} :
        validate(gameState, playerColors, gameState.playerTurn,
                 from[1], from[2], to[1], to[2]).moveValid }

\* C38: for a face-up piece of the player on turn, the destinations the
\* client offers (validMoves and captureableMoves of getValidMoves) are the
\* destinations for which the server's move handler accepts the move; every
\* cannon capture the server accepts is among them.
C38_OfferedIsAccepted ==
    (fn.op = "getValidMoves" /\ fn.done)
    => fn.validMoves \cup fn.captureableMoves = ServerAccepts(fn.from)

----------------------------------------------------------------------------
\* What the engine lists and what it accepts

\* C39: in the class Banqi, while the game is active, a destination other
\* than the cell itself is in getValidMoves(r, c) exactly if makeMove from
\* (r, c) to it returns true in the same state; every cannon jump capture
\* that getValidMoves lists is accepted by makeMove.
C39_ListedIsAccepted ==
    [][(fn'.op = "makeMove" /\ game.gameActive /\ fn'.from # fn'.to)
       => (fn'.to \in getValidMoves(game, fn'.from[1], fn'.from[2])
           <=> fn'.result)]_vars

====
